---- MODULE Spec2Model ----
(***************************************************************************)
(* Wainlux K6 laser engraver: the protocol session (send / await),         *)
(* the chunked transfer engine, the engrave composite operation and the    *)
(* service layer that serialises callers with device.serial_lock.          *)
(*                                                                         *)
(* Every caller (a web request handler thread, or a direct call of a       *)
(* driver function) is a thread t with a control point pc[t], a send       *)
(* phase phase[t] and a record of locals loc[t].  The bytes written to     *)
(* the transport are kept, frame by frame, in wire.                        *)
(***************************************************************************)
EXTENDS Integers, Sequences, FiniteSets, TLC

VARIABLES
    serial_lock,        \* K6DeviceManager.serial_lock (threading.RLock)
    dry_run,            \* K6DeviceManager._dry_run, synced to WainluxK6.dry_run
    burn_cancel_event,  \* main.burn_cancel_event (threading.Event)
    wire,               \* frames written to the transport, in write order
    sleeps,             \* time.sleep(backoff) calls of burn_payload, in order
    device_manager,     \* K6DeviceManager: connected, version, transport
    now,                \* time.time(), in ticks
    pc,                 \* control point of each thread
    phase,              \* position inside send_cmd: idle, write, read, log
    loc                 \* locals of each thread

vars == <<serial_lock, dry_run, burn_cancel_event, wire, sleeps, device_manager,
          now, pc, phase, loc>>

-----------------------------------------------------------------------------
(* Program constants *)

ACK == 9
DATA_CHUNK == 1900
HEARTBEAT == <<255, 255, 255, 254>>

OP_FRAMING == 33
OP_DATA == 34
OP_JOB_HEADER == 35
OP_INIT == 36
OP_CONNECT == 10
OP_STOP == 22
OP_HOME == 23
OP_VERSION == 255
OP_BOUNDS == 32
OP_CROSSHAIR_ON == 6
OP_CROSSHAIR_OFF == 7

BUF_KEEP == 16
ENGRAVE_MAX_WAIT_S == 600
ENGRAVE_IDLE_S == 90
ENGRAVE_MAX_RETRIES == 3
MAX_DIM == 1600

-----------------------------------------------------------------------------
(* Bounds of the model *)

MaxLines == 2           \* burn_payload: at most this many scanlines
MaxRetriesIn == 4       \* burn_payload: max_retries is drawn from 0..MaxRetriesIn
MaxHeight == 2          \* engrave: image heights 1..MaxHeight (and one oversized)
MaxStatusFrames == 2    \* wait_for_completion: status frames the device sends
MaxRxLen == 4           \* send_cmd_checked: responses of up to this many bytes
MaxWaitLen == 3         \* wait_for_completion: arbitrary streams of up to this many bytes

LineLens == {0, 1900, 3000}
Threads == {"t1", "t2", "t3"}
Clients == {"t1", "t2"}     \* threads serving burn requests
Operator == "t3"             \* the thread serving the stop request
NoThread == "nobody"
T1 == "t1"

-----------------------------------------------------------------------------
(* Helpers *)

Min(a, b) == IF a < b THEN a ELSE b

RECURSIVE SeqsUpTo(_, _)
SeqsUpTo(S, n) ==
    IF n = 0 THEN {<<>>}
    ELSE LET shorter == SeqsUpTo(S, n - 1)
         IN shorter \cup {Append(s, x) : s \in {q \in shorter : Len(q) = n - 1}, x \in S}

RECURSIVE Pow2(_)
Pow2(n) == IF n <= 0 THEN 1 ELSE 2 * Pow2(n - 1)

\* rx.count(bytes([ACK])) of parse_response_frames
AckCount(rx) == Cardinality({i \in 1..Len(rx) : rx[i] = ACK})

\* A frame on the wire: who wrote it, its opcode and, for DATA, the slice
\* line[off : off + len] of payload_lines[line] that it carries; whether the
\* writer held serial_lock when it was written; and whether what came back
\* for it before send_cmd stopped reading answers it: "pending", "good", or
\* "bad" (nothing came back, or an ACK was expected and no byte 0x09 came).
Frame(t, opcode, line, off, len) ==
    [by |-> t, opcode |-> opcode, line |-> line, off |-> off, len |-> len,
     locked |-> (serial_lock.owner = t), reply |-> "pending"]

\* Whether the bytes read back for a frame answer it.
ReplyKind(rx, expect_ack) ==
    IF rx = <<>> THEN "bad"
    ELSE IF expect_ack /\ ~(\E i \in 1..Len(rx) : rx[i] = ACK) THEN "bad"
    ELSE "good"

PlainFrame(t, opcode) == Frame(t, opcode, -1, 0, 0)

IdleLoc ==
    [op |-> "idle", dry_run_override |-> "None", previous_dry_run |-> FALSE,
     csv_logger |-> "None", width |-> 0, height |-> 0,
     payload_lines |-> <<>>, max_retries |-> 0,
     line_idx |-> 0, offset |-> 0, attempt |-> 0, chunk_count |-> 0,
     rx |-> <<>>, exc |-> "None", err_line |-> -1, err_offset |-> -1,
     ok |-> "None", chunks |-> -1, status |-> "None", last_pct |-> -1,
     waited |-> 0, firsts |-> <<>>, commands |-> <<>>, i |-> 0, sent |-> 0,
     err_at |-> "None", expect_ack |-> FALSE, ret |-> <<>>,
     version |-> <<>>, stream |-> <<>>, buf |-> <<>>, received |-> <<>>,
     start |-> 0, last_rx |-> 0, max_wait_s |-> 0, idle_s |-> 0,
     iter_start |-> 0, idle_checked |-> -1]

-----------------------------------------------------------------------------
(* protocol.send_cmd: write the frame, read byte by byte up to the stop     *)
(* condition or the deadline, log, return the bytes read.                   *)

\* What the device may deliver before the deadline of one send_cmd.
DeviceStreams == {<<>>, <<ACK>>, HEARTBEAT}

IsStatusTail(rx) ==
    /\ Len(rx) >= 4
    /\ rx[Len(rx) - 3] = 255
    /\ rx[Len(rx) - 2] = 255
    /\ rx[Len(rx) - 1] = 0

IsHeartbeatTail(rx) ==
    /\ Len(rx) >= 4
    /\ SubSeq(rx, Len(rx) - 3, Len(rx)) = HEARTBEAT

\* The read loop of send_cmd: stream is what arrives before the deadline.
RECURSIVE send_cmd_loop(_, _, _, _)
send_cmd_loop(stream, rx, expect_ack, min_response_len) ==
    IF stream = <<>> THEN rx
    ELSE LET rx2 == Append(rx, Head(stream))
         IN IF min_response_len > 0 /\ Len(rx2) >= min_response_len THEN rx2
            ELSE IF expect_ack /\ AckCount(rx2) > 0 THEN rx2
            ELSE IF ~expect_ack /\ (IsHeartbeatTail(rx2) \/ IsStatusTail(rx2)) THEN rx2
            ELSE send_cmd_loop(Tail(stream), rx2, expect_ack, min_response_len)

\* The commands a control point sends: opcode, expect_ack, min_response_len.
Cmd(p) ==
    CASE p = "FRAMING"    -> [opcode |-> OP_FRAMING, expect_ack |-> TRUE, min_len |-> 0]
      [] p = "JOB_HEADER" -> [opcode |-> OP_JOB_HEADER, expect_ack |-> FALSE, min_len |-> 0]
      [] p = "CONNECT1"   -> [opcode |-> OP_CONNECT, expect_ack |-> TRUE, min_len |-> 0]
      [] p = "CONNECT2"   -> [opcode |-> OP_CONNECT, expect_ack |-> TRUE, min_len |-> 0]
      [] p = "DATA"       -> [opcode |-> OP_DATA, expect_ack |-> TRUE, min_len |-> 0]
      [] p = "INIT1"      -> [opcode |-> OP_INIT, expect_ack |-> FALSE, min_len |-> 0]
      [] p = "INIT2"      -> [opcode |-> OP_INIT, expect_ack |-> FALSE, min_len |-> 0]
      [] p = "HOME"       -> [opcode |-> OP_HOME, expect_ack |-> TRUE, min_len |-> 0]
      [] p = "BOUNDS"     -> [opcode |-> OP_BOUNDS, expect_ack |-> TRUE, min_len |-> 0]
      [] p = "CROSSHAIR"  -> [opcode |-> OP_CROSSHAIR_ON, expect_ack |-> TRUE, min_len |-> 0]
      [] p = "VERSION"    -> [opcode |-> OP_VERSION, expect_ack |-> FALSE, min_len |-> 3]

SendPcs ==
    {"FRAMING", "JOB_HEADER", "CONNECT1", "CONNECT2", "DATA", "INIT1", "INIT2",
     "HOME", "BOUNDS", "CROSSHAIR", "VERSION"}

\* chunk = line[offset : offset + DATA_CHUNK]: the length of the slice.
ChunkLen(line_len, offset) == Min(DATA_CHUNK, line_len - offset)

CurrentFrame(t) ==
    IF pc[t] = "BOUNDS"
    THEN Frame(t, loc[t].pkt[1], -1, 0, Len(loc[t].pkt))
    ELSE IF pc[t] = "DATA"
    THEN Frame(t, OP_DATA, loc[t].line_idx, loc[t].offset,
               ChunkLen(loc[t].payload_lines[loc[t].line_idx + 1], loc[t].offset))
    ELSE PlainFrame(t, Cmd(pc[t]).opcode)

\* What the device may send in answer to VERSION before the deadline.
VersionStreams ==
    {<<>>, <<4, 1>>, <<4, 1, 6>>, <<0, 0, 1>>, <<12, 0, 255>>, <<4, 1, 6, 9>>, HEARTBEAT}

StreamsFor(p) == IF p = "VERSION" THEN VersionStreams ELSE DeviceStreams

\* transport.write(data) in send_cmd
SendCmdWrite(t) ==
    /\ pc[t] \in SendPcs
    /\ phase[t] = "write"
    /\ wire' = Append(wire, CurrentFrame(t))
    /\ loc' = [loc EXCEPT ![t].sent = Len(wire) + 1]
    /\ phase' = [phase EXCEPT ![t] = "read"]
    /\ UNCHANGED <<now, device_manager, serial_lock, dry_run, burn_cancel_event, sleeps, pc>>

\* the read loop of send_cmd, up to its deadline
SendCmdRead(t) ==
    /\ pc[t] \in SendPcs
    /\ phase[t] = "read"
    /\ \E stream \in StreamsFor(pc[t]) :
         LET rx == send_cmd_loop(stream, <<>>, Cmd(pc[t]).expect_ack, Cmd(pc[t]).min_len)
         IN /\ loc' = [loc EXCEPT ![t].rx = rx]
            /\ wire' = [wire EXCEPT ![loc[t].sent].reply =
                                 ReplyKind(rx, Cmd(pc[t]).expect_ack)]
    /\ phase' = [phase EXCEPT ![t] = "log"]
    /\ UNCHANGED <<now, device_manager, serial_lock, dry_run, burn_cancel_event, sleeps, pc>>

\* ProgressCSVLogger.log_operation raises KeyboardInterrupt when the cancel
\* event is set; a plain CSVLogger, or no logger, never raises.
CancelObserved(t) == loc[t].csv_logger = "progress" /\ burn_cancel_event

\* mutant: the ACK is demanded also when expect_ack is false
send_cmd_checked_AckAlways(rx, expect_ack) ==
    IF rx = <<>> THEN "K6TimeoutError"
    ELSE IF AckCount(rx) = 0 THEN "K6DeviceError"
    ELSE "None"

\* mutant: the reply is returned unchecked
send_cmd_checked_Unchecked(rx, expect_ack) == "None"

\* send_cmd_checked: the exception it raises for the bytes send_cmd returned.
send_cmd_checked(rx, expect_ack) ==
    IF rx = <<>> THEN "K6TimeoutError"
    ELSE IF expect_ack /\ AckCount(rx) = 0 THEN "K6DeviceError"
    ELSE "None"

\* The outcome of send_cmd (its log call) followed by send_cmd_checked.
SendOutcome(t) ==
    IF CancelObserved(t) THEN "KeyboardInterrupt"
    ELSE send_cmd_checked(loc[t].rx, Cmd(pc[t]).expect_ack)

\* Where an exception that leaves the driver function lands, per operation.
UnwindPc(o) ==
    IF o = "engrave" THEN "svc_finally"
    ELSE IF o = "mark_position_transport" THEN "mk_except"
    ELSE "raised"

\* Where control goes when burn_payload returns, per operation.
BurnPayloadReturnPc(o) ==
    IF o = "burn_payload" THEN "returned"
    ELSE IF o = "mark_position_transport" THEN "INIT1"
    ELSE "et_dry"

-----------------------------------------------------------------------------
(* protocol.burn_payload *)

\* mutant: the exponent is attempt instead of attempt - 1
Backoff_NoShift(attempt) == 100 * Pow2(attempt)

\* backoff = 0.1 * (2 ** (attempt - 1)) seconds, in milliseconds
Backoff(attempt) == 100 * Pow2(attempt - 1)

\* while attempt < max_retries
MayAttempt(attempt, max_retries) == attempt < max_retries

\* mutant: one attempt too many is allowed before raising
RetriesExhausted_OffByOne(attempt, max_retries) == attempt > max_retries

\* if attempt >= max_retries: raise K6DeviceError
RetriesExhausted(attempt, max_retries) == attempt >= max_retries

\* for line_idx, line in enumerate(payload_lines): offset = 0
BurnPayloadFor(t) ==
    /\ pc[t] = "bp_for"
    /\ IF loc[t].line_idx < Len(loc[t].payload_lines)
       THEN /\ loc' = [loc EXCEPT ![t].offset = 0]
            /\ pc' = [pc EXCEPT ![t] = "bp_while"]
            /\ phase' = phase
       ELSE /\ loc' = [loc EXCEPT ![t].chunks = loc[t].chunk_count]
            /\ pc' = [pc EXCEPT ![t] = BurnPayloadReturnPc(loc[t].op)]
            /\ phase' = [phase EXCEPT ![t] =
                           IF BurnPayloadReturnPc(loc[t].op) \in SendPcs
                           THEN "write" ELSE "idle"]
    /\ UNCHANGED <<now, device_manager, serial_lock, dry_run, burn_cancel_event, wire, sleeps>>

\* while offset < len(line): chunk = line[offset:offset + DATA_CHUNK]; attempt = 0
BurnPayloadWhile(t) ==
    /\ pc[t] = "bp_while"
    /\ IF loc[t].offset < loc[t].payload_lines[loc[t].line_idx + 1]
       THEN /\ loc' = [loc EXCEPT ![t].attempt = 0]
            /\ pc' = [pc EXCEPT ![t] = "bp_attempt"]
       ELSE /\ loc' = [loc EXCEPT ![t].line_idx = @ + 1]
            /\ pc' = [pc EXCEPT ![t] = "bp_for"]
    /\ UNCHANGED <<now, device_manager, serial_lock, dry_run, burn_cancel_event, wire, sleeps, phase>>

\* while attempt < max_retries: ... ; offset += DATA_CHUNK
BurnPayloadAttempt(t) ==
    /\ pc[t] = "bp_attempt"
    /\ IF MayAttempt(loc[t].attempt, loc[t].max_retries)
       THEN /\ pc' = [pc EXCEPT ![t] = "DATA"]
            /\ phase' = [phase EXCEPT ![t] = "write"]
            /\ loc' = loc
       ELSE /\ loc' = [loc EXCEPT ![t].offset = @ + DATA_CHUNK]
            /\ pc' = [pc EXCEPT ![t] = "bp_while"]
            /\ phase' = phase
    /\ UNCHANGED <<now, device_manager, serial_lock, dry_run, burn_cancel_event, wire, sleeps>>

\* send_cmd_checked(DATA chunk) returned or raised:
\* chunk_count += 1; break; offset += DATA_CHUNK  /  except (K6TimeoutError, K6DeviceError)
BurnPayloadSent(t) ==
    /\ pc[t] = "DATA"
    /\ phase[t] = "log"
    /\ LET e == SendOutcome(t)
       IN CASE e = "None" ->
                 /\ loc' = [loc EXCEPT ![t].chunk_count = @ + 1,
                                       ![t].offset = @ + DATA_CHUNK,
                                       ![t].rx = <<>>]
                 /\ pc' = [pc EXCEPT ![t] = "bp_while"]
            [] e = "KeyboardInterrupt" ->
                 /\ loc' = [loc EXCEPT ![t].exc = e, ![t].rx = <<>>]
                 /\ pc' = [pc EXCEPT ![t] = UnwindPc(loc[t].op)]
            [] OTHER ->
                 /\ loc' = [loc EXCEPT ![t].exc = e, ![t].rx = <<>>]
                 /\ pc' = [pc EXCEPT ![t] = "bp_except"]
    /\ phase' = [phase EXCEPT ![t] = "idle"]
    /\ UNCHANGED <<now, device_manager, serial_lock, dry_run, burn_cancel_event, wire, sleeps>>

\* except (K6TimeoutError, K6DeviceError): attempt += 1; log the retry;
\* raise K6DeviceError when exhausted, else time.sleep(backoff)
BurnPayloadExcept(t) ==
    /\ pc[t] = "bp_except"
    /\ LET attempt == loc[t].attempt + 1
       IN IF CancelObserved(t)
          THEN /\ loc' = [loc EXCEPT ![t].attempt = attempt,
                                     ![t].exc = "KeyboardInterrupt"]
               /\ pc' = [pc EXCEPT ![t] = UnwindPc(loc[t].op)]
               /\ sleeps' = sleeps
          ELSE IF RetriesExhausted(attempt, loc[t].max_retries)
          THEN /\ loc' = [loc EXCEPT ![t].attempt = attempt,
                                     ![t].exc = "K6DeviceError",
                                     ![t].err_at = "DATA",
                                     ![t].err_line = loc[t].line_idx,
                                     ![t].err_offset = loc[t].offset]
               /\ pc' = [pc EXCEPT ![t] = UnwindPc(loc[t].op)]
               /\ sleeps' = sleeps
          ELSE /\ loc' = [loc EXCEPT ![t].attempt = attempt, ![t].exc = "None"]
               /\ pc' = [pc EXCEPT ![t] = "bp_attempt"]
               /\ sleeps' = Append(sleeps,
                                   [by |-> t, line |-> loc[t].line_idx,
                                    offset |-> loc[t].offset, attempt |-> attempt,
                                    ms |-> Backoff(attempt), frames |-> Len(wire)])
    /\ UNCHANGED <<now, device_manager, serial_lock, dry_run, burn_cancel_event, wire, phase>>

BurnPayloadStep(t) ==
    \/ BurnPayloadFor(t)
    \/ BurnPayloadWhile(t)
    \/ BurnPayloadAttempt(t)
    \/ BurnPayloadSent(t)
    \/ BurnPayloadExcept(t)

-----------------------------------------------------------------------------
(* SpecBurn: one direct call burn_payload(transport, payload_lines,         *)
(* max_retries), as the unit tests make it.  A scanline is modelled by its  *)
(* length; a DATA frame by the slice (line, off, len) it carries.           *)

\* A manager whose connect() has succeeded.
ConnectedManager ==
    [connected |-> TRUE, version |-> "v4.1.6", transport |-> "SerialTransport"]

InitShared ==
    /\ serial_lock = [owner |-> NoThread, count |-> 0]
    /\ dry_run = FALSE
    /\ burn_cancel_event = FALSE
    /\ wire = <<>>
    /\ sleeps = <<>>
    /\ device_manager = ConnectedManager
    /\ now = 0

InitBurn ==
    /\ InitShared
    /\ \E lines \in SeqsUpTo(LineLens, MaxLines), m \in 0..MaxRetriesIn :
         loc = [t \in Threads |->
                  IF t = T1
                  THEN [IdleLoc EXCEPT !.op = "burn_payload",
                                       !.payload_lines = lines,
                                       !.max_retries = m]
                  ELSE IdleLoc]
    /\ pc = [t \in Threads |-> IF t = T1 THEN "bp_for" ELSE "idle"]
    /\ phase = [t \in Threads |-> "idle"]

NextBurn ==
    \/ SendCmdWrite(T1)
    \/ SendCmdRead(T1)
    \/ BurnPayloadFor(T1)
    \/ BurnPayloadWhile(T1)
    \/ BurnPayloadAttempt(T1)
    \/ BurnPayloadSent(T1)
    \/ BurnPayloadExcept(T1)

SpecBurn == InitBurn /\ [][NextBurn]_vars

-----------------------------------------------------------------------------
(* driver.WainluxK6.engrave_transport *)

Widths == {1, 9, 1600, 1601}
Heights == (1..MaxHeight) \cup {1601}
StatusPcts == {0, 30, 50, 100}

\* bytes per packed scanline: the width padded to a multiple of 8, over 8
PackedWidth(width) == (width + ((8 - (width % 8)) % 8)) \div 8

\* payload_lines = [packed[y].tobytes() for y in range(height)]
PackedLines(width, height) == [y \in 1..height |-> PackedWidth(width)]

\* if width > 1600 or height > 1600: raise ValueError
TooLarge(width, height) == width > MAX_DIM \/ height > MAX_DIM

\* mutant: the dry-run flag is not consulted after the upload
SkipsLaser_Never(flag) == FALSE

\* if self.dry_run: return before INIT and wait_for_completion
SkipsLaser(flag) == flag

\* mutant: the threshold is strict, 50 % counts as a failure
EngraveOk_Strict(status, last_pct) ==
    CASE status = "complete" -> "True"
      [] status = "idle_timeout" ->
           IF last_pct # -1 /\ last_pct # 0 /\ last_pct > 50 THEN "True" ELSE "False"
      [] OTHER -> "False"

\* the result dict's ok for what wait_for_completion returned
EngraveOk(status, last_pct) ==
    CASE status = "complete" -> "True"
      [] status = "idle_timeout" ->
           IF last_pct # -1 /\ last_pct # 0 /\ last_pct >= 50 THEN "True" ELSE "False"
      [] OTHER -> "False"

\* Where control goes when the driver function returns, per operation.
ReturnPc(o) == IF o = "engrave" THEN "svc_finally" ELSE "returned"

\* The commands of engrave_transport and mark_position_transport that are
\* sent once with send_cmd_checked, and the control point after each.
CheckedPcs == {"FRAMING", "JOB_HEADER", "CONNECT1", "CONNECT2", "INIT1", "INIT2"}

\* mutant: the upload starts after CONNECT #1
AfterChecked_SkipConnect2(p) ==
    CASE p = "FRAMING"    -> "JOB_HEADER"
      [] p = "JOB_HEADER" -> "CONNECT1"
      [] p = "CONNECT1"   -> "et_pending"
      [] p = "CONNECT2"   -> "et_pending"
      [] p = "INIT1"      -> "INIT2"
      [] p = "INIT2"      -> "wait"

AfterChecked(p) ==
    CASE p = "FRAMING"    -> "JOB_HEADER"
      [] p = "JOB_HEADER" -> "CONNECT1"
      [] p = "CONNECT1"   -> "CONNECT2"
      [] p = "CONNECT2"   -> "et_pending"
      [] p = "INIT1"      -> "INIT2"
      [] p = "INIT2"      -> "wait"

\* img = Image.open(...); the size check; packing into payload_lines
EngraveLoad(t) ==
    /\ pc[t] = "et_load"
    /\ IF TooLarge(loc[t].width, loc[t].height)
       THEN /\ loc' = [loc EXCEPT ![t].exc = "ValueError", ![t].err_at = "et_load"]
            /\ pc' = [pc EXCEPT ![t] = UnwindPc(loc[t].op)]
            /\ phase' = phase
       ELSE /\ loc' = [loc EXCEPT ![t].payload_lines =
                                     PackedLines(loc[t].width, loc[t].height)]
            /\ pc' = [pc EXCEPT ![t] = "FRAMING"]
            /\ phase' = [phase EXCEPT ![t] = "write"]
    /\ UNCHANGED <<now, device_manager, serial_lock, dry_run, burn_cancel_event, wire, sleeps>>

\* send_cmd_checked(FRAMING / JOB_HEADER / CONNECT #n / INIT #n) returned or raised
CheckedSent(t) ==
    /\ loc[t].op \in {"engrave_transport", "engrave"}
    /\ pc[t] \in CheckedPcs
    /\ phase[t] = "log"
    /\ LET e == SendOutcome(t)
           next == AfterChecked(pc[t])
       IN IF e = "None"
          THEN /\ loc' = [loc EXCEPT ![t].rx = <<>>]
               /\ pc' = [pc EXCEPT ![t] = next]
               /\ phase' = [phase EXCEPT ![t] = IF next \in SendPcs THEN "write" ELSE "idle"]
          ELSE /\ loc' = [loc EXCEPT ![t].rx = <<>>, ![t].exc = e, ![t].err_at = pc[t]]
               /\ pc' = [pc EXCEPT ![t] = UnwindPc(loc[t].op)]
               /\ phase' = [phase EXCEPT ![t] = "idle"]
    /\ UNCHANGED <<now, device_manager, serial_lock, dry_run, burn_cancel_event, wire, sleeps>>

\* transport.set_timeout(0.1); pending = transport.read(64); then
\* burn_payload(transport, payload_lines, max_retries=3, ...)
EngravePending(t) ==
    /\ pc[t] = "et_pending"
    /\ loc' = [loc EXCEPT ![t].max_retries = ENGRAVE_MAX_RETRIES,
                          ![t].line_idx = 0, ![t].chunk_count = 0]
    /\ pc' = [pc EXCEPT ![t] = "bp_for"]
    /\ UNCHANGED <<now, device_manager, serial_lock, dry_run, burn_cancel_event, wire, sleeps, phase>>

\* if self.dry_run: log DRY_RUN_STOP; return ok with the chunk count
EngraveDryRun(t) ==
    /\ pc[t] = "et_dry"
    /\ IF SkipsLaser(dry_run)
       THEN IF CancelObserved(t)
            THEN /\ loc' = [loc EXCEPT ![t].exc = "KeyboardInterrupt",
                                       ![t].err_at = "et_dry"]
                 /\ pc' = [pc EXCEPT ![t] = UnwindPc(loc[t].op)]
                 /\ phase' = phase
            ELSE /\ loc' = [loc EXCEPT ![t].ok = "True", ![t].status = "dry_run"]
                 /\ pc' = [pc EXCEPT ![t] = ReturnPc(loc[t].op)]
                 /\ phase' = phase
       ELSE /\ loc' = loc
            /\ pc' = [pc EXCEPT ![t] = "INIT1"]
            /\ phase' = [phase EXCEPT ![t] = "write"]
    /\ UNCHANGED <<now, device_manager, serial_lock, dry_run, burn_cancel_event, wire, sleeps>>

-----------------------------------------------------------------------------
(* protocol.wait_for_completion, one status frame at a time *)

\* a status frame FF FF 00 pct is read
WaitStatus(t) ==
    /\ pc[t] = "wait"
    /\ loc[t].waited < MaxStatusFrames
    /\ \E pct \in StatusPcts :
         IF pct # loc[t].last_pct
         THEN IF CancelObserved(t)
              THEN /\ loc' = [loc EXCEPT ![t].waited = @ + 1, ![t].last_pct = pct,
                                         ![t].exc = "KeyboardInterrupt",
                                         ![t].err_at = "wait"]
                   /\ pc' = [pc EXCEPT ![t] = UnwindPc(loc[t].op)]
              ELSE IF pct = 100
              THEN /\ loc' = [loc EXCEPT ![t].waited = @ + 1, ![t].last_pct = pct,
                                         ![t].status = "complete",
                                         ![t].ok = EngraveOk("complete", pct)]
                   /\ pc' = [pc EXCEPT ![t] = ReturnPc(loc[t].op)]
              ELSE /\ loc' = [loc EXCEPT ![t].waited = @ + 1, ![t].last_pct = pct]
                   /\ pc' = pc
         ELSE /\ loc' = [loc EXCEPT ![t].waited = @ + 1]
              /\ pc' = pc
    /\ UNCHANGED <<now, device_manager, serial_lock, dry_run, burn_cancel_event, wire, sleeps, phase>>

\* no byte for idle_s: return {'status': 'idle_timeout', 'last_pct': last_pct}
WaitIdle(t) ==
    /\ pc[t] = "wait"
    /\ loc' = [loc EXCEPT ![t].status = "idle_timeout",
                          ![t].ok = EngraveOk("idle_timeout", loc[t].last_pct)]
    /\ pc' = [pc EXCEPT ![t] = ReturnPc(loc[t].op)]
    /\ UNCHANGED <<now, device_manager, serial_lock, dry_run, burn_cancel_event, wire, sleeps, phase>>

\* max_wait_s exceeded: raise K6TimeoutError
WaitMax(t) ==
    /\ pc[t] = "wait"
    /\ loc' = [loc EXCEPT ![t].exc = "K6TimeoutError", ![t].err_at = "wait"]
    /\ pc' = [pc EXCEPT ![t] = UnwindPc(loc[t].op)]
    /\ UNCHANGED <<now, device_manager, serial_lock, dry_run, burn_cancel_event, wire, sleeps, phase>>

-----------------------------------------------------------------------------
(* SpecEngrave: one direct call engrave_transport(transport, image) on a    *)
(* driver whose dry_run flag is set or not, as the driver tests make it.    *)

InitEngrave ==
    /\ serial_lock = [owner |-> NoThread, count |-> 0]
    /\ dry_run \in BOOLEAN
    /\ burn_cancel_event = FALSE
    /\ wire = <<>>
    /\ device_manager = ConnectedManager
    /\ now = 0
    /\ sleeps = <<>>
    /\ \E w \in Widths, h \in Heights :
         loc = [t \in Threads |->
                  IF t = T1
                  THEN [IdleLoc EXCEPT !.op = "engrave_transport",
                                       !.width = w, !.height = h]
                  ELSE IdleLoc]
    /\ pc = [t \in Threads |-> IF t = T1 THEN "et_load" ELSE "idle"]
    /\ phase = [t \in Threads |-> "idle"]

NextEngrave ==
    \/ EngraveLoad(T1)
    \/ SendCmdWrite(T1)
    \/ SendCmdRead(T1)
    \/ CheckedSent(T1)
    \/ EngravePending(T1)
    \/ BurnPayloadFor(T1)
    \/ BurnPayloadWhile(T1)
    \/ BurnPayloadAttempt(T1)
    \/ BurnPayloadSent(T1)
    \/ BurnPayloadExcept(T1)
    \/ EngraveDryRun(T1)
    \/ WaitStatus(T1)
    \/ WaitIdle(T1)
    \/ WaitMax(T1)

SpecEngrave == InitEngrave /\ [][NextEngrave]_vars

-----------------------------------------------------------------------------
(* threading.RLock *)

\* mutant: the lock admits a second owner
CanAcquire_Always(lock, t) == TRUE

\* acquire() blocks until the lock is free or already owned by the caller
CanAcquire(lock, t) == lock.owner \in {NoThread, t}

Acquire(lock, t) == [owner |-> t, count |-> lock.count + 1]

\* mutant: leaving the with block keeps the lock
Release_Leak(lock) == lock

\* release(): the last release frees the lock
Release(lock) ==
    IF lock.count <= 1 THEN [owner |-> NoThread, count |-> 0]
    ELSE [owner |-> lock.owner, count |-> lock.count - 1]

\* What is left of a request once its handler has returned or raised: the
\* request's inputs and its result; the other locals are gone.
Outcome(l) ==
    [IdleLoc EXCEPT !.op = l.op, !.dry_run_override = l.dry_run_override,
                    !.csv_logger = l.csv_logger, !.ok = l.ok, !.exc = l.exc,
                    !.status = l.status]

-----------------------------------------------------------------------------
(* K6Service.engrave: the lock around engrave_transport, and the           *)
(* per-request dry-run override inside it.                                  *)

Overrides == {"None", "True", "False"}
Loggers == {"None", "progress"}
ServiceWidth == {9}
ServiceHeight == {1}

\* bool(dry_run_override) for an override that is not None
OverrideValue(o) == o = "True"

\* a request thread calls engrave(image, csv_logger, dry_run_override);
\* the transport is set, so the call goes on to the lock
StartEngrave(t) ==
    /\ t \in Clients
    /\ pc[t] = "idle"
    /\ \E o \in Overrides, lg \in Loggers, w \in ServiceWidth, h \in ServiceHeight :
         loc' = [loc EXCEPT ![t] = [IdleLoc EXCEPT !.op = "engrave",
                                                   !.dry_run_override = o,
                                                   !.csv_logger = lg,
                                                   !.width = w, !.height = h]]
    /\ pc' = [pc EXCEPT ![t] = "svc_acquire"]
    /\ UNCHANGED <<now, device_manager, serial_lock, dry_run, burn_cancel_event, wire, sleeps, phase>>

\* with self.device.serial_lock: previous_dry_run = self.device.dry_run
SvcAcquire(t) ==
    /\ pc[t] = "svc_acquire"
    /\ CanAcquire(serial_lock, t)
    /\ serial_lock' = Acquire(serial_lock, t)
    /\ loc' = [loc EXCEPT ![t].previous_dry_run = dry_run]
    /\ pc' = [pc EXCEPT ![t] = "svc_set"]
    /\ UNCHANGED <<now, device_manager, dry_run, burn_cancel_event, wire, sleeps, phase>>

\* if dry_run_override is not None: self.device.dry_run = bool(dry_run_override)
SvcSet(t) ==
    /\ pc[t] = "svc_set"
    /\ dry_run' = IF loc[t].dry_run_override # "None"
                  THEN OverrideValue(loc[t].dry_run_override) ELSE dry_run
    /\ pc' = [pc EXCEPT ![t] = "et_load"]
    /\ UNCHANGED <<now, device_manager, serial_lock, burn_cancel_event, wire, sleeps, phase, loc>>

\* finally: restore dry_run; leave the with block; return result, or
\* except Exception: return ok False (KeyboardInterrupt is not an Exception)
SvcFinally(t) ==
    /\ pc[t] = "svc_finally"
    /\ dry_run' = IF loc[t].dry_run_override # "None"
                  THEN loc[t].previous_dry_run ELSE dry_run
    /\ serial_lock' = Release(serial_lock)
    /\ loc' = [loc EXCEPT ![t] =
                 [Outcome(loc[t]) EXCEPT !.ok =
                    IF loc[t].exc \in {"K6TimeoutError", "K6DeviceError", "ValueError"}
                    THEN "False" ELSE loc[t].ok]]
    /\ pc' = [pc EXCEPT ![t] = "done"]
    /\ UNCHANGED <<now, device_manager, burn_cancel_event, wire, sleeps, phase>>

-----------------------------------------------------------------------------
(* main.test_stop and K6Service.stop *)

\* burn_cancel_event.set(); then k6_service.stop(): transport.write(STOP)
\* with no read, send_cmd_checked(CONNECT #1), and True returned whether or
\* not the CONNECT was answered.  No lock is taken.  The handler is one
\* step: what other threads do between its statements only changes where
\* its two frames land among theirs.
TestStop(t) ==
    /\ t = Operator
    /\ pc[t] = "idle"
    /\ burn_cancel_event' = TRUE
    /\ \E stream \in DeviceStreams :
         LET rx == send_cmd_loop(stream, <<>>, TRUE, 0)
         IN wire' = wire \o <<PlainFrame(t, OP_STOP),
                              [PlainFrame(t, OP_CONNECT) EXCEPT
                                  !.reply = ReplyKind(rx, TRUE)]>>
    /\ loc' = [loc EXCEPT ![t] = [IdleLoc EXCEPT !.op = "stop", !.ok = "True"]]
    /\ pc' = [pc EXCEPT ![t] = "done"]
    /\ UNCHANGED <<now, device_manager, serial_lock, dry_run, sleeps, phase>>

-----------------------------------------------------------------------------
(* SpecService: two request threads call K6Service.engrave after a stop     *)
(* request has been served: the cancel event is set and stays set (only a   *)
(* burn route clears it), so a call that is given the progress logger is    *)
(* cancelled at its first logging point and a call that is given no logger  *)
(* runs to its end, as every call does while the event is clear.            *)

InitService ==
    /\ serial_lock = [owner |-> NoThread, count |-> 0]
    /\ dry_run = FALSE
    /\ burn_cancel_event = TRUE
    /\ wire = <<>>
    /\ device_manager = ConnectedManager
    /\ now = 0
    /\ sleeps = <<>>
    /\ loc = [t \in Threads |-> IdleLoc]
    /\ pc = [t \in Threads |-> "idle"]
    /\ phase = [t \in Threads |-> "idle"]

ServiceStep(t) ==
    \/ StartEngrave(t)
    \/ SvcAcquire(t)
    \/ SvcSet(t)
    \/ EngraveLoad(t)
    \/ SendCmdWrite(t)
    \/ SendCmdRead(t)
    \/ CheckedSent(t)
    \/ EngravePending(t)
    \/ BurnPayloadFor(t)
    \/ BurnPayloadWhile(t)
    \/ BurnPayloadAttempt(t)
    \/ BurnPayloadSent(t)
    \/ BurnPayloadExcept(t)
    \/ EngraveDryRun(t)
    \/ WaitStatus(t)
    \/ WaitIdle(t)
    \/ WaitMax(t)
    \/ SvcFinally(t)

NextService == \E t \in Threads : ServiceStep(t)

SpecService == InitService /\ [][NextService]_vars

\* The threads are scheduled by the operating system: a thread that can take
\* a step eventually takes one.
FairService == SpecService /\ \A t \in Threads : WF_vars(ServiceStep(t))

-----------------------------------------------------------------------------
(* PipelineService.build_commands and the command file *)

\* A command of the file: its opcode, its size in bytes, the value of its
\* bytes 2..3 read as a little-endian integer, and the scanline it carries.
FileCmd(opcode, size) == [opcode |-> opcode, size |-> size, le |-> size, line |-> -1]

\* build_data_packet: [0x22][len_hi][len_lo][payload][checksum]; bytes 2..3
\* are len_lo and the first payload byte
DataCmd(n, first, line) ==
    [opcode |-> OP_DATA, size |-> n + 4,
     le |-> ((n + 4) % 256) + 256 * first, line |-> line]

\* the sequence build_commands serializes for a packed image whose scanlines
\* are n bytes long and start with the bytes firsts
BuildCommands(n, firsts) ==
    <<FileCmd(OP_FRAMING, 4), FileCmd(OP_JOB_HEADER, 38),
      FileCmd(OP_CONNECT, 4), FileCmd(OP_CONNECT, 4)>>
    \o [y \in 1..Len(firsts) |-> DataCmd(n, firsts[y], y - 1)]
    \o <<FileCmd(OP_INIT, 11), FileCmd(OP_INIT, 11),
         FileCmd(OP_CONNECT, 4), FileCmd(OP_CONNECT, 4)>>

RECURSIVE FileSize(_)
FileSize(file) == IF file = <<>> THEN 0 ELSE Head(file).size + FileSize(Tail(file))

\* The parse loop of execute_from_file: the length of a command is taken
\* from its bytes 2..3, little-endian.  k is the command at byte offset.  A
\* length that runs past the end of the file ends the parse; the files of
\* this model are shorter than 256 bytes, so a length that differs from the
\* command's size always does.
RECURSIVE ParseCommands(_, _, _, _)
ParseCommands(file, k, offset, total) ==
    IF k > Len(file) \/ offset + 4 > total THEN <<>>
    ELSE IF offset + file[k].le > total THEN <<>>
    ELSE IF file[k].le = file[k].size
    THEN <<file[k]>> \o ParseCommands(file, k + 1, offset + file[k].size, total)
    ELSE <<[file[k] EXCEPT !.size = file[k].le]>>

-----------------------------------------------------------------------------
(* main.engrave (POST /api/engrave), _run_burn_with_csv and                 *)
(* WainluxK6.execute_from_file                                              *)

RouteOverrides == {"True", "False"}
RouteWidth == {9}
FirstBytes == {0, 1}
RouteFirsts == {<<f>> : f \in FirstBytes}

\* the route up to _run_burn_with_csv: the request's dry_run is parsed,
\* burn_cancel_event.clear(), the image is processed, the commands are built
EngraveRoute(t) ==
    /\ t \in Clients
    /\ pc[t] = "idle"
    /\ \E o \in RouteOverrides, w \in RouteWidth, f \in RouteFirsts :
         loc' = [loc EXCEPT ![t] = [IdleLoc EXCEPT !.op = "burn",
                                                   !.dry_run_override = o,
                                                   !.csv_logger = "progress",
                                                   !.width = w, !.height = Len(f),
                                                   !.firsts = f]]
    /\ burn_cancel_event' = FALSE
    /\ pc' = [pc EXCEPT ![t] = "rb_prev"]
    /\ UNCHANGED <<now, device_manager, serial_lock, dry_run, wire, sleeps, phase>>

\* previous_dry_run = device_manager.dry_run
RunBurnPrev(t) ==
    /\ pc[t] = "rb_prev"
    /\ loc' = [loc EXCEPT ![t].previous_dry_run = dry_run]
    /\ pc' = [pc EXCEPT ![t] = "rb_set"]
    /\ UNCHANGED <<now, device_manager, serial_lock, dry_run, burn_cancel_event, wire, sleeps, phase>>

\* if dry_run_override is not None: device_manager.dry_run = bool(dry_run_override)
RunBurnSet(t) ==
    /\ pc[t] = "rb_set"
    /\ dry_run' = OverrideValue(loc[t].dry_run_override)
    /\ pc' = [pc EXCEPT ![t] = "rb_acquire"]
    /\ UNCHANGED <<now, device_manager, serial_lock, burn_cancel_event, wire, sleeps, phase, loc>>

\* with device_manager.serial_lock: execute_from_file reads and parses the file
RunBurnAcquire(t) ==
    /\ pc[t] = "rb_acquire"
    /\ CanAcquire(serial_lock, t)
    /\ serial_lock' = Acquire(serial_lock, t)
    /\ LET file == BuildCommands(PackedWidth(loc[t].width), loc[t].firsts)
       IN loc' = [loc EXCEPT ![t].commands = ParseCommands(file, 1, 0, FileSize(file)),
                             ![t].i = 0]
    /\ pc' = [pc EXCEPT ![t] = "xf_cmd"]
    /\ UNCHANGED <<now, device_manager, dry_run, burn_cancel_event, wire, sleeps, phase>>

\* for i, cmd_bytes in enumerate(commands): the dry-run skip of INIT (with
\* its log call), else transport.write(cmd_bytes); after the last command
\* return ok True
ExecuteCmd(t) ==
    /\ pc[t] = "xf_cmd"
    /\ IF loc[t].i >= Len(loc[t].commands)
       THEN /\ loc' = [loc EXCEPT ![t].ok = "True"]
            /\ pc' = [pc EXCEPT ![t] = "rb_release"]
            /\ wire' = wire
       ELSE LET c == loc[t].commands[loc[t].i + 1]
            IN IF dry_run /\ c.opcode = OP_INIT
               THEN /\ wire' = wire
                    /\ IF CancelObserved(t)
                       THEN /\ loc' = [loc EXCEPT ![t].exc = "KeyboardInterrupt"]
                            /\ pc' = [pc EXCEPT ![t] = "rb_release"]
                       ELSE /\ loc' = [loc EXCEPT ![t].i = @ + 1]
                            /\ pc' = pc
               ELSE /\ wire' = Append(wire,
                                 Frame(t, c.opcode, c.line, 0,
                                       IF c.opcode = OP_DATA THEN c.size - 4 ELSE 0))
                    /\ loc' = loc
                    /\ pc' = [pc EXCEPT ![t] = "xf_read"]
    /\ UNCHANGED <<now, device_manager, serial_lock, dry_run, burn_cancel_event, sleeps, phase>>

\* transport.set_timeout(1.0); response = transport.read(64): whatever comes
\* back is counted and not checked
ExecuteRead(t) ==
    /\ pc[t] = "xf_read"
    /\ pc' = [pc EXCEPT ![t] = "xf_log"]
    /\ UNCHANGED <<now, device_manager, serial_lock, dry_run, burn_cancel_event, wire, sleeps, phase, loc>>

\* csv_logger.log_operation(phase="execute", ...)
ExecuteLog(t) ==
    /\ pc[t] = "xf_log"
    /\ IF CancelObserved(t)
       THEN /\ loc' = [loc EXCEPT ![t].exc = "KeyboardInterrupt"]
            /\ pc' = [pc EXCEPT ![t] = "rb_release"]
       ELSE /\ loc' = [loc EXCEPT ![t].i = @ + 1]
            /\ pc' = [pc EXCEPT ![t] = "xf_cmd"]
    /\ UNCHANGED <<now, device_manager, serial_lock, dry_run, burn_cancel_event, wire, sleeps, phase>>

\* leaving the with block, by return or by exception
RunBurnRelease(t) ==
    /\ pc[t] = "rb_release"
    /\ serial_lock' = Release(serial_lock)
    /\ pc' = [pc EXCEPT ![t] = "rb_finally"]
    /\ UNCHANGED <<now, device_manager, dry_run, burn_cancel_event, wire, sleeps, phase, loc>>

\* finally: device_manager.dry_run = previous_dry_run; a KeyboardInterrupt
\* goes on to the route, which answers "Cancelled by user"
RunBurnFinally(t) ==
    /\ pc[t] = "rb_finally"
    /\ dry_run' = loc[t].previous_dry_run
    /\ IF loc[t].exc = "KeyboardInterrupt"
       THEN /\ loc' = [loc EXCEPT ![t] = [Outcome(loc[t]) EXCEPT !.status = "cancelled"]]
            /\ pc' = [pc EXCEPT ![t] = "done"]
       ELSE /\ loc' = loc
            /\ pc' = [pc EXCEPT ![t] = "rb_result"]
    /\ UNCHANGED <<now, device_manager, serial_lock, burn_cancel_event, wire, sleeps, phase>>

\* if burn_cancel_event.is_set(): cancelled; elif result.get("ok"): success
RunBurnResult(t) ==
    /\ pc[t] = "rb_result"
    /\ loc' = [loc EXCEPT ![t] =
                 [Outcome(loc[t]) EXCEPT !.status =
                    IF burn_cancel_event THEN "cancelled"
                    ELSE IF loc[t].ok = "True" THEN "success" ELSE "error"]]
    /\ pc' = [pc EXCEPT ![t] = "done"]
    /\ UNCHANGED <<now, device_manager, serial_lock, dry_run, burn_cancel_event, wire, sleeps, phase>>

-----------------------------------------------------------------------------
(* SpecRoutes: two request threads serve POST /api/engrave while a third   *)
(* serves POST /api/test/stop.                                              *)

RoutesStep(t) ==
    \/ EngraveRoute(t)
    \/ RunBurnPrev(t)
    \/ RunBurnSet(t)
    \/ RunBurnAcquire(t)
    \/ ExecuteCmd(t)
    \/ ExecuteRead(t)
    \/ ExecuteLog(t)
    \/ RunBurnRelease(t)
    \/ RunBurnFinally(t)
    \/ RunBurnResult(t)
    \/ TestStop(t)

InitRoutes ==
    /\ InitShared
    /\ loc = [t \in Threads |-> IdleLoc]
    /\ pc = [t \in Threads |-> "idle"]
    /\ phase = [t \in Threads |-> "idle"]

NextRoutes == \E t \in Threads : RoutesStep(t)

SpecRoutes == InitRoutes /\ [][NextRoutes]_vars

-----------------------------------------------------------------------------
(* SpecFile: one request thread runs _run_burn_with_csv over the command    *)
(* file that build_commands serialized for an image, with dry run on or off.*)

MaxFileLines == 2
FileWidths == {8, 16, 24}
FileBytes == {0, 1, 255}
FileFirsts == SeqsUpTo(FileBytes, MaxFileLines)
FileThread == "t1"

\* the state the engrave route leaves for _run_burn_with_csv
InitFile ==
    /\ InitShared
    /\ \E o \in RouteOverrides, w \in FileWidths, f \in FileFirsts :
         loc = [t \in Threads |->
                  IF t = FileThread
                  THEN [IdleLoc EXCEPT !.op = "burn", !.dry_run_override = o,
                                       !.csv_logger = "progress",
                                       !.width = w, !.height = Len(f),
                                       !.firsts = f]
                  ELSE IdleLoc]
    /\ pc = [t \in Threads |-> IF t = FileThread THEN "rb_prev" ELSE "idle"]
    /\ phase = [t \in Threads |-> "idle"]

NextFile ==
    \/ RunBurnPrev(FileThread)
    \/ RunBurnSet(FileThread)
    \/ RunBurnAcquire(FileThread)
    \/ ExecuteCmd(FileThread)
    \/ ExecuteRead(FileThread)
    \/ ExecuteLog(FileThread)
    \/ RunBurnRelease(FileThread)
    \/ RunBurnFinally(FileThread)
    \/ RunBurnResult(FileThread)

SpecFile == InitFile /\ [][NextFile]_vars

-----------------------------------------------------------------------------
(* SpecSetup: engrave_transport from the size check to the end of its setup *)
(* phase, for images around the size limits.                                *)

SetupWidths == {9, 1600, 1601}

SetupHeights == {1, 1520, 1521, 1600, 1601}

InitSetup ==
    /\ InitShared
    /\ \E w \in SetupWidths, h \in SetupHeights :
         loc = [t \in Threads |->
                  IF t = T1
                  THEN [IdleLoc EXCEPT !.op = "engrave_transport",
                                       !.width = w, !.height = h]
                  ELSE IdleLoc]
    /\ pc = [t \in Threads |-> IF t = T1 THEN "et_load" ELSE "idle"]
    /\ phase = [t \in Threads |-> "idle"]

NextSetup ==
    \/ EngraveLoad(T1)
    \/ SendCmdWrite(T1)
    \/ SendCmdRead(T1)
    \/ CheckedSent(T1)
    \/ EngravePending(T1)

SpecSetup == InitSetup /\ [][NextSetup]_vars

-----------------------------------------------------------------------------
(* K6DeviceManager.connect and WainluxK6.connect_transport (SpecConnect) *)

\* One decimal digit as a character.
DigitChar(d) ==
    CASE d = 0 -> "0" [] d = 1 -> "1" [] d = 2 -> "2" [] d = 3 -> "3"
      [] d = 4 -> "4" [] d = 5 -> "5" [] d = 6 -> "6" [] d = 7 -> "7"
      [] d = 8 -> "8" [] d = 9 -> "9"

\* How an f-string formats a non-negative int: its decimal digits.
RECURSIVE Str(_)
Str(n) == IF n < 10 THEN DigitChar(n) ELSE Str(n \div 10) \o DigitChar(n % 10)

\* mutant: the version string without its "v" prefix
VersionString_NoPrefix(version) ==
    Str(version[1]) \o "." \o Str(version[2]) \o "." \o Str(version[3])

\* f"v{version[0]}.{version[1]}.{version[2]}"
VersionString(version) ==
    "v" \o Str(version[1]) \o "." \o Str(version[2]) \o "." \o Str(version[3])

\* is_connected(): self.connected and self.transport is not None
is_connected(dm) == dm.connected /\ dm.transport # "None"

\* mutant: the except branch leaves the manager as it is
ConnectFailed_Keep(dm) == dm

\* except Exception: self.connected = False; self.transport = None
ConnectFailed(dm) == [dm EXCEPT !.connected = FALSE, !.transport = "None"]

\* mutant: HOME is left out of the sequence
AfterConnect_SkipHome(p) ==
    CASE p = "VERSION"  -> "CONNECT1"
      [] p = "CONNECT1" -> "CONNECT2"
      [] p = "CONNECT2" -> "dm_success"
      [] p = "HOME"     -> "dm_success"

\* The order of the commands of connect_transport after STOP.
AfterConnect(p) ==
    CASE p = "VERSION"  -> "CONNECT1"
      [] p = "CONNECT1" -> "CONNECT2"
      [] p = "CONNECT2" -> "HOME"
      [] p = "HOME"     -> "dm_success"

\* A manager as __init__ leaves it (not in mock mode).
NewManager == [connected |-> FALSE, version |-> "None", transport |-> "None"]

\* connect() is called on a new manager or on one that is connected.
InitConnect ==
    /\ serial_lock = [owner |-> NoThread, count |-> 0]
    /\ dry_run = FALSE
    /\ burn_cancel_event = FALSE
    /\ wire = <<>>
    /\ sleeps = <<>>
    /\ device_manager \in {NewManager, ConnectedManager}
    /\ now = 0
    /\ loc = [t \in Threads |->
                IF t = T1 THEN [IdleLoc EXCEPT !.op = "connect"] ELSE IdleLoc]
    /\ pc = [t \in Threads |-> IF t = T1 THEN "dm_connect" ELSE "idle"]
    /\ phase = [t \in Threads |-> "idle"]

\* self.transport = SerialTransport(...)
ManagerOpen(t) ==
    /\ pc[t] = "dm_connect"
    /\ device_manager' = [device_manager EXCEPT !.transport = "SerialTransport"]
    /\ pc' = [pc EXCEPT ![t] = "ct_stop"]
    /\ UNCHANGED <<now, serial_lock, dry_run, burn_cancel_event, wire, sleeps, phase, loc>>

\* transport.write(STOP): written, and no reply is read
ConnectStop(t) ==
    /\ pc[t] = "ct_stop"
    /\ wire' = Append(wire, PlainFrame(t, OP_STOP))
    /\ pc' = [pc EXCEPT ![t] = "VERSION"]
    /\ phase' = [phase EXCEPT ![t] = "write"]
    /\ UNCHANGED <<now, serial_lock, dry_run, burn_cancel_event, sleeps, device_manager, loc>>

\* if not rx or len(rx) < 3: raise K6TimeoutError; version = rx[0..2]
VersionSent(t) ==
    /\ loc[t].op = "connect"
    /\ pc[t] = "VERSION"
    /\ phase[t] = "log"
    /\ IF Len(loc[t].rx) < 3
       THEN /\ loc' = [loc EXCEPT ![t].exc = "K6TimeoutError", ![t].err_at = pc[t]]
            /\ pc' = [pc EXCEPT ![t] = "dm_except"]
            /\ phase' = [phase EXCEPT ![t] = "idle"]
       ELSE /\ loc' = [loc EXCEPT ![t].version = SubSeq(loc[t].rx, 1, 3)]
            /\ pc' = [pc EXCEPT ![t] = AfterConnect(pc[t])]
            /\ phase' = [phase EXCEPT ![t] = "write"]
    /\ UNCHANGED <<now, serial_lock, dry_run, burn_cancel_event, wire, sleeps, device_manager>>

\* send_cmd_checked for CONNECT #1, CONNECT #2 and HOME; return True, version
ConnectSent(t) ==
    /\ loc[t].op = "connect"
    /\ pc[t] \in {"CONNECT1", "CONNECT2", "HOME"}
    /\ phase[t] = "log"
    /\ LET e == send_cmd_checked(loc[t].rx, Cmd(pc[t]).expect_ack)
       IN IF e # "None"
          THEN /\ loc' = [loc EXCEPT ![t].exc = e, ![t].err_at = pc[t]]
               /\ pc' = [pc EXCEPT ![t] = "dm_except"]
               /\ phase' = [phase EXCEPT ![t] = "idle"]
          ELSE /\ pc' = [pc EXCEPT ![t] = AfterConnect(pc[t])]
               /\ phase' = [phase EXCEPT ![t] =
                              IF AfterConnect(pc[t]) \in SendPcs THEN "write" ELSE "idle"]
               /\ UNCHANGED loc
    /\ UNCHANGED <<now, serial_lock, dry_run, burn_cancel_event, wire, sleeps, device_manager>>

\* if success: self.connected = True; self.version = f"v..."; return True
ManagerConnected(t) ==
    /\ pc[t] = "dm_success"
    /\ device_manager' = [device_manager EXCEPT
                            !.connected = TRUE,
                            !.version = VersionString(loc[t].version)]
    /\ loc' = [loc EXCEPT ![t].ok = "True"]
    /\ pc' = [pc EXCEPT ![t] = "done"]
    /\ UNCHANGED <<now, serial_lock, dry_run, burn_cancel_event, wire, sleeps, phase>>

\* except Exception: connected = False; transport = None; return False, None
ManagerExcept(t) ==
    /\ pc[t] = "dm_except"
    /\ device_manager' = ConnectFailed(device_manager)
    /\ loc' = [loc EXCEPT ![t].ok = "False"]
    /\ pc' = [pc EXCEPT ![t] = "done"]
    /\ UNCHANGED <<now, serial_lock, dry_run, burn_cancel_event, wire, sleeps, phase>>

NextConnect ==
    \/ ManagerOpen(T1)
    \/ ConnectStop(T1)
    \/ SendCmdWrite(T1)
    \/ SendCmdRead(T1)
    \/ VersionSent(T1)
    \/ ConnectSent(T1)
    \/ ManagerConnected(T1)
    \/ ManagerExcept(T1)

SpecConnect == InitConnect /\ [][NextConnect]_vars

-----------------------------------------------------------------------------
(* protocol.wait_for_completion, one byte at a time, with the clock         *)
(* (SpecWait).  Time is counted in ticks; a read or a sleep takes 0 or 1.    *)

Ticks == {0, 1}

MaxWaits == {1, 3}

Idles == {1, 2}

WaitBytes == {0, 100, 255}

StatusFrame(pct) == <<255, 255, 0, pct>>

\* What the device sends during the wait: every stream of up to MaxWaitLen
\* bytes, and longer ones with heartbeats, an ACK and earlier status frames
\* in front of the 100 % frame.
WaitStreams ==
    SeqsUpTo(WaitBytes, MaxWaitLen)
      \cup {StatusFrame(100),
            <<255>> \o StatusFrame(100),
            StatusFrame(0) \o <<100>>,
            HEARTBEAT \o <<ACK>> \o StatusFrame(100),
            StatusFrame(30) \o StatusFrame(50),
            StatusFrame(50) \o HEARTBEAT \o StatusFrame(100),
            HEARTBEAT \o HEARTBEAT \o <<ACK>> \o StatusFrame(0)
               \o StatusFrame(50) \o StatusFrame(100)}

\* mutant: only the last three bytes are kept
TrimBuf_Short(buf) ==
    IF Len(buf) > 3 THEN SubSeq(buf, Len(buf) - 2, Len(buf)) ELSE buf

\* if len(buf) > 16: buf = buf[-16:]
TrimBuf(buf) ==
    IF Len(buf) > BUF_KEEP THEN SubSeq(buf, Len(buf) - BUF_KEEP + 1, Len(buf)) ELSE buf

\* len(buf) >= 4 and buf[-4] == 0xFF and buf[-3] == 0xFF and buf[-2] == 0x00
WaitStatusTail(buf) ==
    /\ Len(buf) >= 4
    /\ buf[Len(buf) - 3] = 255
    /\ buf[Len(buf) - 2] = 255
    /\ buf[Len(buf) - 1] = 0

\* mutant: the hard limit is never reached
HardLimit_Never(t_now, start, max_wait_s) == FALSE

\* if time.time() - start > max_wait_s
HardLimit(t_now, start, max_wait_s) == t_now - start > max_wait_s

\* mutant: the idle time is measured from the start of the wait
IdleExpired_FromStart(t_now, last_rx, idle_s) == t_now > idle_s

\* if time.time() - last_rx > idle_s
IdleExpired(t_now, last_rx, idle_s) == t_now - last_rx > idle_s

\* Where control goes when wait_for_completion returns, per operation.
WaitReturnPc(o) == IF o = "wait_for_completion" THEN "returned" ELSE "et_result"

\* The cancel event is set: a wait that was given the route's progress
\* logger is interrupted at its first status log, one without is not.
InitWait ==
    /\ serial_lock = [owner |-> NoThread, count |-> 0]
    /\ dry_run = FALSE
    /\ burn_cancel_event = TRUE
    /\ wire = <<>>
    /\ sleeps = <<>>
    /\ device_manager = ConnectedManager
    /\ now = 0
    /\ \E s \in WaitStreams, m \in MaxWaits, i \in Idles, lg \in Loggers :
         loc = [t \in Threads |->
                  IF t = T1
                  THEN [IdleLoc EXCEPT !.op = "wait_for_completion",
                                       !.stream = s, !.max_wait_s = m,
                                       !.idle_s = i, !.csv_logger = lg,
                                       !.start = 0, !.last_rx = 0]
                  ELSE IdleLoc]
    /\ pc = [t \in Threads |-> IF t = T1 THEN "wfc_top" ELSE "idle"]
    /\ phase = [t \in Threads |-> "idle"]

\* while True: if time.time() - start > max_wait_s: raise K6TimeoutError
WaitCheck(t) ==
    /\ pc[t] = "wfc_top"
    /\ IF HardLimit(now, loc[t].start, loc[t].max_wait_s)
       THEN /\ loc' = [loc EXCEPT ![t].iter_start = now,
                                  ![t].exc = "K6TimeoutError",
                                  ![t].err_at = "wait"]
            /\ pc' = [pc EXCEPT ![t] = UnwindPc(loc[t].op)]
       ELSE /\ loc' = [loc EXCEPT ![t].iter_start = now]
            /\ pc' = [pc EXCEPT ![t] = "wfc_read"]
    /\ UNCHANGED <<serial_lock, dry_run, burn_cancel_event, wire, sleeps,
                   device_manager, now, phase>>

\* b = transport.read(1) returned a byte: last_rx, buf, the status frame
\* test, last_pct, the log call and the return on 100 %
WaitReadByte(t) ==
    /\ pc[t] = "wfc_read"
    /\ loc[t].stream # <<>>
    /\ \E d \in Ticks :
         LET t_now == now + d
             b == Head(loc[t].stream)
             buf2 == TrimBuf(Append(loc[t].buf, b))
             fresh == WaitStatusTail(buf2) /\ b # loc[t].last_pct
             l2 == [loc[t] EXCEPT !.stream = Tail(loc[t].stream),
                                  !.last_rx = t_now,
                                  !.buf = buf2,
                                  !.received = Append(loc[t].received,
                                                      [byte |-> b, at |-> t_now]),
                                  !.last_pct = IF fresh THEN b ELSE loc[t].last_pct]
         IN /\ now' = t_now
            /\ IF fresh /\ CancelObserved(t)
               THEN /\ loc' = [loc EXCEPT ![t] =
                                 [l2 EXCEPT !.exc = "KeyboardInterrupt", !.err_at = "wait"]]
                    /\ pc' = [pc EXCEPT ![t] = UnwindPc(loc[t].op)]
               ELSE IF fresh /\ b = 100
               THEN /\ loc' = [loc EXCEPT ![t] = [l2 EXCEPT !.status = "complete"]]
                    /\ pc' = [pc EXCEPT ![t] = WaitReturnPc(loc[t].op)]
               ELSE /\ loc' = [loc EXCEPT ![t] = l2]
                    /\ pc' = [pc EXCEPT ![t] = "wfc_top"]
    /\ UNCHANGED <<serial_lock, dry_run, burn_cancel_event, wire, sleeps,
                   device_manager, phase>>

\* b = transport.read(1) returned nothing: the idle test, else sleep(0.01)
WaitReadNone(t) ==
    /\ pc[t] = "wfc_read"
    /\ \E d1 \in Ticks, d2 \in Ticks :
         LET t_now == now + d1
         IN IF IdleExpired(t_now, loc[t].last_rx, loc[t].idle_s)
            THEN /\ now' = t_now
                 /\ loc' = [loc EXCEPT ![t].status = "idle_timeout",
                                       ![t].idle_checked = t_now]
                 /\ pc' = [pc EXCEPT ![t] = WaitReturnPc(loc[t].op)]
            ELSE /\ now' = t_now + d2
                 /\ loc' = [loc EXCEPT ![t].idle_checked = t_now]
                 /\ pc' = [pc EXCEPT ![t] = "wfc_top"]
    /\ UNCHANGED <<serial_lock, dry_run, burn_cancel_event, wire, sleeps,
                   device_manager, phase>>

NextWait ==
    \/ WaitCheck(T1)
    \/ WaitReadByte(T1)
    \/ WaitReadNone(T1)

SpecWait == InitWait /\ [][NextWait]_vars

-----------------------------------------------------------------------------
(* WainluxK6.mark_position_transport (SpecMark) *)

\* def wait_for_completion(transport, max_wait_s, idle_s=90.0, csv_logger=None)
WaitParams == {"transport", "max_wait_s", "idle_s", "csv_logger"}

WaitRequired == {"transport", "max_wait_s"}

\* The arguments of the call in mark_position_transport:
\* wait_for_completion(transport, timeout=5.0, csv_logger=csv_logger)
MarkWaitArgs == {"transport", "timeout", "csv_logger"}

\* Python binds a call when every argument names a parameter and every
\* parameter without a default has an argument; otherwise TypeError.
CallBinds(args, params, required) == args \subseteq params /\ required \subseteq args

AfterMark(p) ==
    CASE p = "FRAMING"    -> "JOB_HEADER"
      [] p = "JOB_HEADER" -> "CONNECT1"
      [] p = "CONNECT1"   -> "CONNECT2"
      [] p = "CONNECT2"   -> "mk_burn"
      [] p = "INIT1"      -> "INIT2"
      [] p = "INIT2"      -> "mk_wait"

\* What the device sends once the job is started: nothing, or 100 %.
MarkReports == {<<>>, StatusFrame(100)}

InitMark ==
    /\ InitShared
    /\ \E r \in MarkReports :
         loc = [t \in Threads |->
                  IF t = T1
                  THEN [IdleLoc EXCEPT !.op = "mark_position_transport", !.stream = r]
                  ELSE IdleLoc]
    /\ pc = [t \in Threads |-> IF t = T1 THEN "mk_start" ELSE "idle"]
    /\ phase = [t \in Threads |-> "idle"]

\* width, height = 1, 1; payload_lines = [bytes([0xFF])]
MarkStart(t) ==
    /\ pc[t] = "mk_start"
    /\ loc' = [loc EXCEPT ![t].width = 1, ![t].height = 1, ![t].payload_lines = <<1>>]
    /\ pc' = [pc EXCEPT ![t] = "FRAMING"]
    /\ phase' = [phase EXCEPT ![t] = "write"]
    /\ UNCHANGED <<now, device_manager, serial_lock, dry_run, burn_cancel_event, wire, sleeps>>

\* send_cmd_checked(FRAMING / JOB_HEADER / CONNECT #n / INIT #n) inside the try
MarkChecked(t) ==
    /\ loc[t].op = "mark_position_transport"
    /\ pc[t] \in CheckedPcs
    /\ phase[t] = "log"
    /\ LET e == SendOutcome(t)
           next == AfterMark(pc[t])
       IN IF e = "None"
          THEN /\ loc' = [loc EXCEPT ![t].rx = <<>>]
               /\ pc' = [pc EXCEPT ![t] = next]
               /\ phase' = [phase EXCEPT ![t] = IF next \in SendPcs THEN "write" ELSE "idle"]
          ELSE /\ loc' = [loc EXCEPT ![t].rx = <<>>, ![t].exc = e, ![t].err_at = pc[t]]
               /\ pc' = [pc EXCEPT ![t] = UnwindPc(loc[t].op)]
               /\ phase' = [phase EXCEPT ![t] = "idle"]
    /\ UNCHANGED <<now, device_manager, serial_lock, dry_run, burn_cancel_event, wire, sleeps>>

\* protocol.burn_payload(transport, payload_lines, max_retries=3, ...)
MarkBurn(t) ==
    /\ pc[t] = "mk_burn"
    /\ loc' = [loc EXCEPT ![t].max_retries = 3, ![t].line_idx = 0, ![t].chunk_count = 0]
    /\ pc' = [pc EXCEPT ![t] = "bp_for"]
    /\ UNCHANGED <<now, device_manager, serial_lock, dry_run, burn_cancel_event, wire, sleeps, phase>>

\* protocol.wait_for_completion(transport, timeout=5.0, csv_logger=csv_logger)
MarkWait(t) ==
    /\ pc[t] = "mk_wait"
    /\ IF CallBinds(MarkWaitArgs, WaitParams, WaitRequired)
       THEN /\ loc' = loc
            /\ pc' = [pc EXCEPT ![t] = "wfc_top"]
       ELSE /\ loc' = [loc EXCEPT ![t].exc = "TypeError", ![t].err_at = "mk_wait"]
            /\ pc' = [pc EXCEPT ![t] = UnwindPc(loc[t].op)]
    /\ UNCHANGED <<now, device_manager, serial_lock, dry_run, burn_cancel_event, wire, sleeps, phase>>

\* except Exception: ...; return False
MarkExcept(t) ==
    /\ pc[t] = "mk_except"
    /\ loc' = [loc EXCEPT ![t].ok = "False"]
    /\ pc' = [pc EXCEPT ![t] = "returned"]
    /\ UNCHANGED <<now, device_manager, serial_lock, dry_run, burn_cancel_event, wire, sleeps, phase>>

NextMark ==
    \/ MarkStart(T1)
    \/ SendCmdWrite(T1)
    \/ SendCmdRead(T1)
    \/ MarkChecked(T1)
    \/ MarkBurn(T1)
    \/ BurnPayloadFor(T1)
    \/ BurnPayloadWhile(T1)
    \/ BurnPayloadAttempt(T1)
    \/ BurnPayloadSent(T1)
    \/ BurnPayloadExcept(T1)
    \/ MarkWait(T1)
    \/ MarkExcept(T1)

SpecMark == InitMark /\ [][NextMark]_vars

-----------------------------------------------------------------------------
(* WainluxK6.draw_bounds_transport and protocol.build_bounds_packet          *)
(* (SpecBounds).  An argument left at None is written -1.                    *)

\* (v >> 8) & 0xFF, v & 0xFF
Msb(v) == (v \div 256) % 256

Lsb(v) == v % 256

\* mutant: the center position is left out of the packet
build_bounds_packet_NoCenter(width, height, center_x, center_y) ==
    <<OP_BOUNDS, 0, 11, Msb(width), Lsb(width), Msb(height), Lsb(height)>>

\* center defaults, then [0x20][0x00][0x0B][W][H][X][Y], 16 bits each
build_bounds_packet(width, height, center_x, center_y) ==
    LET cx == IF center_x = -1 THEN (width \div 2) + 67 ELSE center_x
        cy == IF center_y = -1 THEN height \div 2 ELSE center_y
    IN <<OP_BOUNDS, 0, 11, Msb(width), Lsb(width), Msb(height), Lsb(height),
         Msb(cx), Lsb(cx), Msb(cy), Lsb(cy)>>

BoundsWidths == {1, 300, 1600}

BoundsHeights == {1, 1520, 1600}

BoundsCenters == {-1, 760, 800}

\* The locals of draw_bounds_transport.
BoundsLoc == [center_x |-> -1, center_y |-> -1, pkt |-> <<>>] @@ IdleLoc

InitBounds ==
    /\ InitShared
    /\ \E w \in BoundsWidths, h \in BoundsHeights, lg \in Loggers,
          cx \in BoundsCenters, cy \in BoundsCenters :
         loc = [t \in Threads |->
                  IF t = T1
                  THEN [BoundsLoc EXCEPT !.op = "draw_bounds_transport",
                                         !.width = w, !.height = h,
                                         !.center_x = cx, !.center_y = cy,
                                         !.csv_logger = lg]
                  ELSE IdleLoc]
    /\ pc = [t \in Threads |-> IF t = T1 THEN "db_build" ELSE "idle"]
    /\ phase = [t \in Threads |-> "idle"]

\* bounds_cmd = protocol.build_bounds_packet(width, height, center_x, center_y)
BoundsBuild(t) ==
    /\ pc[t] = "db_build"
    /\ loc' = [loc EXCEPT ![t].pkt = build_bounds_packet(loc[t].width, loc[t].height,
                                                        loc[t].center_x, loc[t].center_y)]
    /\ pc' = [pc EXCEPT ![t] = "BOUNDS"]
    /\ phase' = [phase EXCEPT ![t] = "write"]
    /\ UNCHANGED <<now, device_manager, serial_lock, dry_run, burn_cancel_event, wire, sleeps>>

\* send_cmd_checked(BOUNDS) returned: return True; or raised: an Exception
\* goes to the except branch, a KeyboardInterrupt leaves the function
BoundsSent(t) ==
    /\ loc[t].op = "draw_bounds_transport"
    /\ pc[t] = "BOUNDS"
    /\ phase[t] = "log"
    /\ LET e == SendOutcome(t)
       IN /\ loc' = [loc EXCEPT ![t].exc = e,
                                ![t].ok = IF e = "None" THEN "True" ELSE "None"]
          /\ pc' = [pc EXCEPT ![t] = IF e = "None" THEN "returned"
                                     ELSE IF e = "KeyboardInterrupt" THEN "raised"
                                     ELSE "db_except"]
    /\ phase' = [phase EXCEPT ![t] = "idle"]
    /\ UNCHANGED <<now, device_manager, serial_lock, dry_run, burn_cancel_event, wire, sleeps>>

\* except Exception: log the error if there is a logger; return False
BoundsExcept(t) ==
    /\ pc[t] = "db_except"
    /\ IF CancelObserved(t)
       THEN /\ loc' = [loc EXCEPT ![t].exc = "KeyboardInterrupt"]
            /\ pc' = [pc EXCEPT ![t] = "raised"]
       ELSE /\ loc' = [loc EXCEPT ![t].ok = "False"]
            /\ pc' = [pc EXCEPT ![t] = "returned"]
    /\ UNCHANGED <<now, device_manager, serial_lock, dry_run, burn_cancel_event, wire, sleeps, phase>>

NextBounds ==
    \/ BoundsBuild(T1)
    \/ SendCmdWrite(T1)
    \/ SendCmdRead(T1)
    \/ BoundsSent(T1)
    \/ BoundsExcept(T1)

SpecBounds == InitBounds /\ [][NextBounds]_vars

-----------------------------------------------------------------------------
(* MockTransport with auto_respond: connect in mock mode, then a              *)
(* non-dry-run engrave_transport (SpecMock).  loc.stream is the transport's   *)
(* response queue _resp; one tick is a second.                                *)

MOCK_VERSION == <<0, 0, 1>>

\* mutant: INIT is answered with an ACK only, no status frames
AutoRespond_NoStatus(opcode) ==
    IF opcode = 255 THEN MOCK_VERSION
    ELSE IF opcode = 22 THEN <<>>
    ELSE IF opcode \in {10, 23, 32, 33, 34, 35, 36, 37, 40} THEN <<9>>
    ELSE HEARTBEAT

\* MockTransport.write with auto_respond: what is queued for an opcode.
AutoRespond(opcode) ==
    IF opcode = 255 THEN MOCK_VERSION
    ELSE IF opcode = 36 THEN <<9>> \o <<255, 255, 0, 0>> \o <<255, 255, 0, 100>>
    ELSE IF opcode = 22 THEN <<>>
    ELSE IF opcode \in {10, 23, 32, 33, 34, 35, 37, 40} THEN <<9>>
    ELSE HEARTBEAT

\* MockTransport.read(size): the bytes returned and the bytes left.
MockRead(queue, size) == SubSeq(queue, 1, Min(size, Len(queue)))

MockRest(queue, size) == SubSeq(queue, Min(size, Len(queue)) + 1, Len(queue))

MockWidths == {1, 9, 1600}

InitMock ==
    /\ serial_lock = [owner |-> NoThread, count |-> 0]
    /\ dry_run = FALSE
    /\ burn_cancel_event = FALSE
    /\ wire = <<>>
    /\ sleeps = <<>>
    /\ device_manager = NewManager
    /\ now = 0
    /\ \E w \in MockWidths, h \in 1..MaxHeight :
         loc = [t \in Threads |->
                  IF t = T1
                  THEN [IdleLoc EXCEPT !.op = "connect", !.width = w, !.height = h]
                  ELSE IdleLoc]
    /\ pc = [t \in Threads |-> IF t = T1 THEN "dm_connect" ELSE "idle"]
    /\ phase = [t \in Threads |-> "idle"]

\* if self.mock_mode: self.transport = MockTransport(auto_respond=True, ...)
MockOpen(t) ==
    /\ pc[t] = "dm_connect"
    /\ device_manager' = [device_manager EXCEPT !.transport = "MockTransport"]
    /\ loc' = [loc EXCEPT ![t].stream = <<>>]
    /\ pc' = [pc EXCEPT ![t] = "ct_stop"]
    /\ UNCHANGED <<now, serial_lock, dry_run, burn_cancel_event, wire, sleeps, phase>>

\* transport.write(STOP) on the mock: logged, nothing queued, nothing read
MockStop(t) ==
    /\ pc[t] = "ct_stop"
    /\ wire' = Append(wire, PlainFrame(t, OP_STOP))
    /\ loc' = [loc EXCEPT ![t].stream = @ \o AutoRespond(OP_STOP)]
    /\ pc' = [pc EXCEPT ![t] = "VERSION"]
    /\ phase' = [phase EXCEPT ![t] = "write"]
    /\ UNCHANGED <<now, serial_lock, dry_run, burn_cancel_event, sleeps, device_manager>>

\* transport.write(data) in send_cmd, on the mock
MockSendWrite(t) ==
    /\ device_manager.transport = "MockTransport"
    /\ pc[t] \in SendPcs
    /\ phase[t] = "write"
    /\ wire' = Append(wire, CurrentFrame(t))
    /\ loc' = [loc EXCEPT ![t].sent = Len(wire) + 1,
                          ![t].stream = @ \o AutoRespond(CurrentFrame(t).opcode)]
    /\ phase' = [phase EXCEPT ![t] = "read"]
    /\ UNCHANGED <<now, device_manager, serial_lock, dry_run, burn_cancel_event, sleeps, pc>>

\* the read loop of send_cmd on the mock: bytes come off the queue one at a
\* time until a stop condition holds or the queue is empty at the deadline
MockSendRead(t) ==
    /\ device_manager.transport = "MockTransport"
    /\ pc[t] \in SendPcs
    /\ phase[t] = "read"
    /\ LET rx == send_cmd_loop(loc[t].stream, <<>>, Cmd(pc[t]).expect_ack, Cmd(pc[t]).min_len)
       IN /\ loc' = [loc EXCEPT ![t].rx = rx,
                                ![t].stream = MockRest(@, Len(rx))]
          /\ wire' = [wire EXCEPT ![loc[t].sent].reply =
                               ReplyKind(rx, Cmd(pc[t]).expect_ack)]
    /\ phase' = [phase EXCEPT ![t] = "log"]
    /\ UNCHANGED <<now, device_manager, serial_lock, dry_run, burn_cancel_event, sleeps, pc>>

\* driver.engrave_transport(transport, image) on the connected mock
MockEngrave(t) ==
    /\ pc[t] = "done"
    /\ loc[t].op = "connect"
    /\ is_connected(device_manager)
    /\ loc' = [loc EXCEPT ![t].op = "engrave_transport", ![t].ok = "None"]
    /\ pc' = [pc EXCEPT ![t] = "et_load"]
    /\ UNCHANGED <<now, device_manager, serial_lock, dry_run, burn_cancel_event, wire, sleeps, phase>>

\* transport.set_timeout(0.1); pending = transport.read(64); then burn_payload
MockPending(t) ==
    /\ pc[t] = "et_pending"
    /\ loc' = [loc EXCEPT ![t].stream = MockRest(@, 64),
                          ![t].max_retries = ENGRAVE_MAX_RETRIES,
                          ![t].line_idx = 0, ![t].chunk_count = 0]
    /\ pc' = [pc EXCEPT ![t] = "bp_for"]
    /\ UNCHANGED <<now, device_manager, serial_lock, dry_run, burn_cancel_event, wire, sleeps, phase>>

\* result = protocol.wait_for_completion(transport, max_wait_s=600.0, idle_s=90.0, ...)
WaitEnter(t) ==
    /\ pc[t] = "wait"
    /\ loc' = [loc EXCEPT ![t].start = now, ![t].last_rx = now,
                          ![t].buf = <<>>, ![t].last_pct = -1,
                          ![t].max_wait_s = ENGRAVE_MAX_WAIT_S,
                          ![t].idle_s = ENGRAVE_IDLE_S]
    /\ pc' = [pc EXCEPT ![t] = "wfc_top"]
    /\ UNCHANGED <<now, device_manager, serial_lock, dry_run, burn_cancel_event, wire, sleeps, phase>>

\* the result dict of engrave_transport for what the wait returned
EngraveResult(t) ==
    /\ pc[t] = "et_result"
    /\ loc' = [loc EXCEPT ![t].ok = EngraveOk(loc[t].status, loc[t].last_pct)]
    /\ pc' = [pc EXCEPT ![t] = ReturnPc(loc[t].op)]
    /\ UNCHANGED <<now, device_manager, serial_lock, dry_run, burn_cancel_event, wire, sleeps, phase>>

NextMock ==
    \/ MockOpen(T1)
    \/ MockStop(T1)
    \/ MockSendWrite(T1)
    \/ MockSendRead(T1)
    \/ VersionSent(T1)
    \/ ConnectSent(T1)
    \/ ManagerConnected(T1)
    \/ MockEngrave(T1)
    \/ EngraveLoad(T1)
    \/ CheckedSent(T1)
    \/ MockPending(T1)
    \/ BurnPayloadFor(T1)
    \/ BurnPayloadWhile(T1)
    \/ BurnPayloadAttempt(T1)
    \/ BurnPayloadSent(T1)
    \/ EngraveDryRun(T1)
    \/ WaitEnter(T1)
    \/ WaitCheck(T1)
    \/ WaitReadByte(T1)
    \/ EngraveResult(T1)

SpecMock == InitMock /\ [][NextMock]_vars

\* The driver runs on: every enabled step is eventually taken.
FairMock == SpecMock /\ WF_vars(NextMock)

-----------------------------------------------------------------------------
(* protocol.checksum and protocol.build_data_packet, byte by byte           *)

\* sum(packet[lo..hi]) of Python, by halves
RECURSIVE SumRange(_, _, _)
SumRange(s, lo, hi) ==
    IF lo > hi THEN 0
    ELSE IF lo = hi THEN s[lo]
    ELSE LET mid == (lo + hi) \div 2
         IN SumRange(s, lo, mid) + SumRange(s, mid + 1, hi)

\* mutant: the sum is not negated
checksum_NoNegate(packet) ==
    LET total == IF Len(packet) >= 1 THEN SumRange(packet, 1, Len(packet) - 1) ELSE 0
    IN total % 256

\* total = sum(packet[:-1]) if len(packet) >= 1 else 0; (-total) & 0xFF
checksum(packet) ==
    LET total == IF Len(packet) >= 1 THEN SumRange(packet, 1, Len(packet) - 1) ELSE 0
    IN (256 - (total % 256)) % 256

\* mutant: the length field is written little-endian
build_data_packet_LittleEndian(payload) ==
    IF Len(payload) > DATA_CHUNK
    THEN [exc |-> "ValueError", pkt |-> <<>>]
    ELSE LET packet_len == Len(payload) + 4
             pkt == <<OP_DATA, packet_len % 256, (packet_len \div 256) % 256>>
                    \o payload \o <<0>>
         IN [exc |-> "None", pkt |-> [pkt EXCEPT ![packet_len] = checksum(pkt)]]

\* pkt = bytearray(packet_len); pkt[0] = 0x22; pkt[1], pkt[2] = the length,
\* high byte first; pkt[3 : 3 + len(payload)] = payload; pkt[-1] = checksum(pkt)
build_data_packet(payload) ==
    IF Len(payload) > DATA_CHUNK
    THEN [exc |-> "ValueError", pkt |-> <<>>]
    ELSE LET packet_len == Len(payload) + 4
             pkt == <<OP_DATA, (packet_len \div 256) % 256, packet_len % 256>>
                    \o payload \o <<0>>
         IN [exc |-> "None", pkt |-> [pkt EXCEPT ![packet_len] = checksum(pkt)]]

-----------------------------------------------------------------------------
(* SpecPacket: build_data_packet applied to a payload.                      *)

MaxPayload == 3
PacketBytes == {0, 1, 128, 255}
LongLens == {252, 253, DATA_CHUNK, DATA_CHUNK + 1}
\* long payloads: all 0xFF, or the bytes 1, 2, 3, ... modulo 256
LongPayloads ==
    {[i \in 1..n |-> 255] : n \in LongLens} \cup {[i \in 1..n |-> i % 256] : n \in LongLens}
Payloads == SeqsUpTo(PacketBytes, MaxPayload) \cup LongPayloads
PacketThread == "t1"

PacketLoc == [payload |-> <<>>, pkt |-> <<>>] @@ IdleLoc

InitPacket ==
    /\ InitShared
    /\ \E p \in Payloads :
         loc = [t \in Threads |->
                  IF t = PacketThread
                  THEN [PacketLoc EXCEPT !.op = "build_data_packet", !.payload = p]
                  ELSE PacketLoc]
    /\ pc = [t \in Threads |-> IF t = PacketThread THEN "pkt_build" ELSE "idle"]
    /\ phase = [t \in Threads |-> "idle"]

\* pkt = build_data_packet(payload): the packet, or ValueError
PacketBuild(t) ==
    /\ pc[t] = "pkt_build"
    /\ LET r == build_data_packet(loc[t].payload)
       IN loc' = [loc EXCEPT ![t].pkt = r.pkt, ![t].exc = r.exc]
    /\ pc' = [pc EXCEPT ![t] = IF loc'[t].exc = "None" THEN "returned" ELSE "raised"]
    /\ UNCHANGED <<now, device_manager, serial_lock, dry_run, burn_cancel_event, wire, sleeps, phase>>

NextPacket == PacketBuild(PacketThread)

SpecPacket == InitPacket /\ [][NextPacket]_vars


-----------------------------------------------------------------------------
(* K6CommandBuilder and CommandSequence (k6/commands.py), byte by byte      *)

put_u16_be(val) == <<Msb(val), Lsb(val)>>

put_u32_be(val) ==
    <<(val \div 16777216) % 256, (val \div 65536) % 256, (val \div 256) % 256, val % 256>>

build_framing == [opcode |-> OP_FRAMING, payload |-> <<33, 0, 4, 0>>]

build_connect == [opcode |-> OP_CONNECT, payload |-> <<10, 0, 4, 0>>]

build_init == [opcode |-> OP_INIT, payload |-> <<36, 0, 11, 0, 0, 0, 0, 0, 0, 0, 0>>]

\* K6CommandBuilder.build_data_packet builds the packet of
\* protocol.build_data_packet
build_data_command(payload) == [opcode |-> OP_DATA, payload |-> build_data_packet(payload).pkt]

\* the 38-byte header; a center of -1 stands for None
build_job_header(width, height, depth, power, center_x, center_y) ==
    LET bytes_per_line == (width + 7) \div 8
        total_size == bytes_per_line * height
        cx == IF center_x = -1 THEN (width \div 2) + 67 ELSE center_x
        cy == IF center_y = -1 THEN 760 ELSE center_y
        param1 == (total_size \div 4094) + 1
    IN [opcode |-> OP_JOB_HEADER,
        payload |-> <<35, 0, 38>> \o put_u16_be(param1) \o <<1>>
                    \o put_u16_be(width) \o put_u16_be(height) \o put_u16_be(33)
                    \o put_u16_be(power) \o put_u16_be(depth)
                    \o put_u16_be(0) \o put_u16_be(0) \o put_u32_be(total_size)
                    \o put_u16_be(0) \o put_u16_be(0) \o put_u32_be(0)
                    \o put_u16_be(cx) \o put_u16_be(cy) \o <<1, 0>>]

\* the empty dict
NoBounds == [k \in {} |-> 0]

\* for cmd in self.commands: the first JOB_HEADER of at least 36 bytes is
\* decoded and returned; {} when the loop ends
RECURSIVE get_bounds_from(_, _)
get_bounds_from(commands, k) ==
    IF k > Len(commands) THEN NoBounds
    ELSE LET cmd == commands[k]
         IN IF cmd.opcode = OP_JOB_HEADER /\ Len(cmd.payload) >= 36
            THEN LET center_x == cmd.payload[33] * 256 + cmd.payload[34]
                     center_y == cmd.payload[35] * 256 + cmd.payload[36]
                     width == cmd.payload[7] * 256 + cmd.payload[8]
                     height == cmd.payload[9] * 256 + cmd.payload[10]
                 IN [center_x |-> center_x, center_y |-> center_y,
                     width |-> width, height |-> height,
                     min_x |-> center_x - (width \div 2),
                     max_x |-> center_x + (width \div 2),
                     min_y |-> center_y - (height \div 2),
                     max_y |-> center_y + (height \div 2)]
            ELSE get_bounds_from(commands, k + 1)

get_bounds(commands) == get_bounds_from(commands, 1)

-----------------------------------------------------------------------------
(* SpecSeq: commands are added to a CommandSequence, then get_bounds is     *)
(* called on it.                                                            *)

MaxSeqLen == 3
SeqDepth == 100
SeqPower == 1000
SeqCommands ==
    {build_framing, build_connect, build_init}
    \cup {build_job_header(g[1], g[2], SeqDepth, SeqPower, g[3], g[4]) :
            g \in {<<8, 1, -1, -1>>, <<1600, 1520, 800, 760>>, <<300, 200, 1000, 500>>}}
SeqThread == "t1"

SeqLoc == [bounds |-> NoBounds] @@ IdleLoc

InitSeq ==
    /\ InitShared
    /\ loc = [t \in Threads |->
                IF t = SeqThread THEN [SeqLoc EXCEPT !.op = "get_bounds"] ELSE SeqLoc]
    /\ pc = [t \in Threads |-> IF t = SeqThread THEN "seq_add" ELSE "idle"]
    /\ phase = [t \in Threads |-> "idle"]

\* seq.add(command)
SeqAdd(t) ==
    /\ pc[t] = "seq_add"
    /\ Len(loc[t].commands) < MaxSeqLen
    /\ \E c \in SeqCommands :
         loc' = [loc EXCEPT ![t].commands = Append(@, c)]
    /\ UNCHANGED <<now, device_manager, serial_lock, dry_run, burn_cancel_event, wire, sleeps, phase, pc>>

\* bounds = seq.get_bounds()
SeqGetBounds(t) ==
    /\ pc[t] = "seq_add"
    /\ loc' = [loc EXCEPT ![t].bounds = get_bounds(loc[t].commands)]
    /\ pc' = [pc EXCEPT ![t] = "returned"]
    /\ UNCHANGED <<now, device_manager, serial_lock, dry_run, burn_cancel_event, wire, sleeps, phase>>

NextSeq ==
    \/ SeqAdd(SeqThread)
    \/ SeqGetBounds(SeqThread)

SpecSeq == InitSeq /\ [][NextSeq]_vars


-----------------------------------------------------------------------------
(* SpecLimits: PipelineService.build_commands builds the sequence for a     *)
(* processed image and validates its bounds.                                *)

\* the sequence build_commands adds for an image of height rows, each row
\* packing to the bytes row
build_commands_seq(row, height, depth, power, center_x, center_y) ==
    LET width == Len(row) * 8
        data == build_data_command(row)
    IN <<build_framing,
         build_job_header(width, height, depth, power, center_x, center_y),
         build_connect, build_connect>>
       \o [line_num \in 1..height |-> data]
       \o <<build_init, build_init, build_connect, build_connect>>

Clamp(lo, hi, v) == IF v < lo THEN lo ELSE IF v > hi THEN hi ELSE v

LimitWidths == {8, 800, 1600, 1608}
LimitHeights == {1, 760, 1520, 1522}
LimitCentersX == {0, 400, 800, 804, 1000}
LimitCentersY == {0, 380, 760, 761}
LimitPowers == {1000, 1200}
LimitsThread == "t1"

LimitsLoc ==
    [center_x |-> 0, center_y |-> 0, power |-> 0, bounds |-> NoBounds,
     warnings |-> <<>>, within_limits |-> FALSE, total_commands |-> 0] @@ IdleLoc

InitLimits ==
    /\ InitShared
    /\ \E w \in LimitWidths, h \in LimitHeights, x \in LimitCentersX,
          y \in LimitCentersY, p \in LimitPowers :
         loc = [t \in Threads |->
                  IF t = LimitsThread
                  THEN [LimitsLoc EXCEPT !.op = "build_commands", !.width = w,
                                         !.height = h, !.center_x = x,
                                         !.center_y = y, !.power = p]
                  ELSE LimitsLoc]
    /\ pc = [t \in Threads |-> IF t = LimitsThread THEN "bc_build" ELSE "idle"]
    /\ phase = [t \in Threads |-> "idle"]

\* build_commands: the parameters are clamped, the sequence is built,
\* bounds = seq.get_bounds(), the two limit checks fill warnings,
\* within_limits = len(warnings) == 0
BuildCommandsValidate(t) ==
    /\ pc[t] = "bc_build"
    /\ LET power == Clamp(0, 1000, loc[t].power)
           depth == Clamp(1, 255, SeqDepth)
           row == [i \in 1..(loc[t].width \div 8) |-> 0]
           commands == build_commands_seq(row, loc[t].height, depth, power,
                                          loc[t].center_x, loc[t].center_y)
           bounds == get_bounds(commands)
           warnings == (IF bounds.max_x > 1600 THEN <<"X exceeds limit">> ELSE <<>>)
                       \o (IF bounds.max_y > 1520 THEN <<"Y exceeds limit">> ELSE <<>>)
       IN loc' = [loc EXCEPT ![t].bounds = bounds,
                             ![t].warnings = warnings,
                             ![t].within_limits = (Len(warnings) = 0),
                             ![t].power = power,
                             ![t].total_commands = Len(commands)]
    /\ pc' = [pc EXCEPT ![t] = "returned"]
    /\ UNCHANGED <<now, device_manager, serial_lock, dry_run, burn_cancel_event, wire, sleeps, phase>>

NextLimits == BuildCommandsValidate(LimitsThread)

SpecLimits == InitLimits /\ [][NextLimits]_vars


-----------------------------------------------------------------------------
(* SpecSend: one call of send_cmd on an auto-responding MockTransport      *)
(* whose queue already holds bytes, one read(1) at a time.                  *)

\* mutant: min_response_len is ignored
SendStops_NoMinLen(rx, expect_ack, min_response_len) ==
    \/ expect_ack /\ AckCount(rx) > 0
    \/ ~expect_ack /\ (IsHeartbeatTail(rx) \/ IsStatusTail(rx))

\* the three break conditions of the read loop, tested after rx.extend(b)
SendStops(rx, expect_ack, min_response_len) ==
    \/ min_response_len > 0 /\ Len(rx) >= min_response_len
    \/ expect_ack /\ AckCount(rx) > 0
    \/ ~expect_ack /\ (IsHeartbeatTail(rx) \/ IsStatusTail(rx))

MaxQueue == 3
QueueBytes == {0, 9, 254, 255}
Queues ==
    SeqsUpTo(QueueBytes, MaxQueue)
    \cup {HEARTBEAT \o <<ACK>>, <<255, 255, 0, 50, 9>>, <<255>> \o HEARTBEAT,
          <<255, 255, 255, 0, 100, 255>>, <<0, 255, 255, 0, 9, 9>>}
SendOpcodes == {OP_CONNECT, OP_STOP, OP_VERSION}
MinLens == {0, 1, 3}
SendTimeouts == {1, 2}
SendThread == "t1"

SendLoc ==
    [opcode |-> 0, min_response_len |-> 0, timeout |-> 0, deadline |-> 0,
     incoming |-> <<>>] @@ IdleLoc

InitSend ==
    /\ InitShared
    /\ \E q \in Queues, o \in SendOpcodes, a \in BOOLEAN, m \in MinLens,
          d \in SendTimeouts :
         loc = [t \in Threads |->
                  IF t = SendThread
                  THEN [SendLoc EXCEPT !.op = "send_cmd", !.opcode = o,
                                       !.expect_ack = a, !.min_response_len = m,
                                       !.timeout = d, !.stream = q]
                  ELSE SendLoc]
    /\ pc = [t \in Threads |-> IF t = SendThread THEN "sc_write" ELSE "idle"]
    /\ phase = [t \in Threads |-> "idle"]

\* t_start = time.time(); transport.write(data), to which the mock queues
\* its answer; rx = bytearray(); deadline = time.time() + timeout
SendWrite(t) ==
    /\ pc[t] = "sc_write"
    /\ wire' = Append(wire, PlainFrame(t, loc[t].opcode))
    /\ LET q == loc[t].stream \o AutoRespond(loc[t].opcode)
       IN loc' = [loc EXCEPT ![t].stream = q, ![t].incoming = q,
                             ![t].sent = Len(wire) + 1, ![t].rx = <<>>,
                             ![t].start = now, ![t].deadline = now + loc[t].timeout]
    /\ pc' = [pc EXCEPT ![t] = "sc_loop"]
    /\ UNCHANGED <<now, device_manager, serial_lock, dry_run, burn_cancel_event, sleeps, phase>>

\* while time.time() < deadline: b = transport.read(1) returns a byte;
\* rx.extend(b); break when a stop condition holds
SendReadByte(t) ==
    /\ pc[t] = "sc_loop"
    /\ now < loc[t].deadline
    /\ loc[t].stream # <<>>
    /\ LET rx == loc[t].rx \o MockRead(loc[t].stream, 1)
       IN /\ loc' = [loc EXCEPT ![t].rx = rx, ![t].stream = MockRest(@, 1)]
          /\ pc' = [pc EXCEPT ![t] =
                      IF SendStops(rx, loc[t].expect_ack, loc[t].min_response_len)
                      THEN "sc_log" ELSE "sc_loop"]
    /\ \E d \in Ticks : now' = now + d
    /\ UNCHANGED <<device_manager, serial_lock, dry_run, burn_cancel_event, wire, sleeps, phase>>

\* b = transport.read(1) returns nothing: time.sleep(0.01)
SendReadNone(t) ==
    /\ pc[t] = "sc_loop"
    /\ now < loc[t].deadline
    /\ loc[t].stream = <<>>
    /\ now' = now + 1
    /\ UNCHANGED <<device_manager, serial_lock, dry_run, burn_cancel_event, wire, sleeps, phase, pc, loc>>

\* the loop condition fails: the deadline has passed
SendDeadline(t) ==
    /\ pc[t] = "sc_loop"
    /\ now >= loc[t].deadline
    /\ pc' = [pc EXCEPT ![t] = "sc_log"]
    /\ UNCHANGED <<now, device_manager, serial_lock, dry_run, burn_cancel_event, wire, sleeps, phase, loc>>

\* csv_logger is None: return bytes(rx)
SendReturn(t) ==
    /\ pc[t] = "sc_log"
    /\ loc' = [loc EXCEPT ![t].ret = loc[t].rx]
    /\ pc' = [pc EXCEPT ![t] = "returned"]
    /\ UNCHANGED <<now, device_manager, serial_lock, dry_run, burn_cancel_event, wire, sleeps, phase>>

NextSend ==
    \/ SendWrite(SendThread)
    \/ SendReadByte(SendThread)
    \/ SendReadNone(SendThread)
    \/ SendDeadline(SendThread)
    \/ SendReturn(SendThread)

SpecSend == InitSend /\ [][NextSend]_vars


-----------------------------------------------------------------------------
(* SpecPct: wait_for_completion reads streams in which the byte after       *)
(* FF FF 00 takes values inside and outside 0..100.                         *)

PctValues == {0, 50, 100, 101, 200, 255}

PctStreams ==
    {StatusFrame(p) : p \in PctValues}
      \cup {StatusFrame(p) \o StatusFrame(100) : p \in PctValues}

InitPct ==
    /\ InitShared
    /\ \E s \in PctStreams, m \in MaxWaits, i \in Idles :
         loc = [t \in Threads |->
                  IF t = T1
                  THEN [IdleLoc EXCEPT !.op = "wait_for_completion",
                                       !.stream = s, !.max_wait_s = m,
                                       !.idle_s = i, !.start = 0, !.last_rx = 0]
                  ELSE IdleLoc]
    /\ pc = [t \in Threads |-> IF t = T1 THEN "wfc_top" ELSE "idle"]
    /\ phase = [t \in Threads |-> "idle"]

NextPct ==
    \/ WaitCheck(T1)
    \/ WaitReadByte(T1)
    \/ WaitReadNone(T1)

SpecPct == InitPct /\ [][NextPct]_vars


-----------------------------------------------------------------------------
(* protocol.parse_response_frames and SpecParse: the function applied to a  *)
(* response.                                                                *)

\* mutant: the last position of the scan is left out
parse_response_frames_ShortScan(rx) ==
    IF rx = <<>> THEN [hb |-> 0, ack |-> 0, typ |-> "NONE"]
    ELSE LET hb == Cardinality({i \in 1..(Len(rx) - 4) : SubSeq(rx, i, i + 3) = HEARTBEAT})
             ack == AckCount(rx)
         IN [hb |-> hb, ack |-> ack,
             typ |-> IF hb > 0 /\ ack > 0 THEN "HEARTBEAT+ACK"
                     ELSE IF hb > 0 THEN "HEARTBEAT"
                     ELSE IF ack > 0 THEN "ACK"
                     ELSE "OTHER"]

\* if not rx: (0, 0, "NONE"); hb counts the i in range(0, max(0, len(rx) - 3))
\* with rx[i : i + 4] == HEARTBEAT; ack = rx.count(ACK); then the type
parse_response_frames(rx) ==
    IF rx = <<>> THEN [hb |-> 0, ack |-> 0, typ |-> "NONE"]
    ELSE LET hb == Cardinality({i \in 1..(Len(rx) - 3) : SubSeq(rx, i, i + 3) = HEARTBEAT})
             ack == AckCount(rx)
         IN [hb |-> hb, ack |-> ack,
             typ |-> IF hb > 0 /\ ack > 0 THEN "HEARTBEAT+ACK"
                     ELSE IF hb > 0 THEN "HEARTBEAT"
                     ELSE IF ack > 0 THEN "ACK"
                     ELSE "OTHER"]

MaxParseLen == 5
ParseBytes == {9, 254, 255}
ParseResponses ==
    SeqsUpTo(ParseBytes, MaxParseLen)
      \cup {StatusFrame(100), <<1, 2, 3>>, HEARTBEAT \o HEARTBEAT,
            HEARTBEAT \o <<ACK>> \o HEARTBEAT \o <<ACK, ACK>>,
            <<255, 255>> \o HEARTBEAT \o StatusFrame(50)}

ParseLoc == [hb |-> -1, ack |-> -1, typ |-> "None"] @@ IdleLoc

InitParse ==
    /\ InitShared
    /\ \E r \in ParseResponses :
         loc = [t \in Threads |->
                  IF t = T1
                  THEN [ParseLoc EXCEPT !.op = "parse_response_frames", !.rx = r]
                  ELSE ParseLoc]
    /\ pc = [t \in Threads |-> IF t = T1 THEN "prf_call" ELSE "idle"]
    /\ phase = [t \in Threads |-> "idle"]

\* hb, ack, typ = parse_response_frames(rx)
ParseCall(t) ==
    /\ pc[t] = "prf_call"
    /\ LET r == parse_response_frames(loc[t].rx)
       IN loc' = [loc EXCEPT ![t].hb = r.hb, ![t].ack = r.ack, ![t].typ = r.typ]
    /\ pc' = [pc EXCEPT ![t] = "returned"]
    /\ UNCHANGED <<now, device_manager, serial_lock, dry_run, burn_cancel_event, wire, sleeps, phase>>

NextParse == ParseCall(T1)

SpecParse == InitParse /\ [][NextParse]_vars


-----------------------------------------------------------------------------
(* protocol.build_job_header_custom and protocol.build_job_header_raster    *)

\* the 38-byte header, field by field
build_job_header_custom(raster_w, raster_h, raster_power, raster_depth, vector_w, vector_h, total_size, vector_power, vector_depth, point_count, center_x, center_y, quality) ==
    LET param1 == (total_size \div 4094) + 1
    IN <<35, 0, 38>> \o put_u16_be(param1) \o <<1>>
       \o put_u16_be(raster_w) \o put_u16_be(raster_h) \o put_u16_be(33)
       \o put_u16_be(raster_power) \o put_u16_be(raster_depth)
       \o put_u16_be(vector_w) \o put_u16_be(vector_h) \o put_u32_be(total_size)
       \o put_u16_be(vector_power) \o put_u16_be(vector_depth)
       \o put_u32_be(point_count)
       \o put_u16_be(center_x) \o put_u16_be(center_y) \o <<quality % 256, 0>>

\* mutant: the size counts whole bytes of a scanline only
build_job_header_raster_Floor(width, height, depth, power, center_x, center_y) ==
    LET total_size == (width \div 8) * height
        cx == IF center_x = -1 THEN (width \div 2) + 67 ELSE center_x
        cy == IF center_y = -1 THEN 760 ELSE center_y
    IN build_job_header_custom(width, height, power, depth, 0, 0, total_size,
                               0, 0, 0, cx, cy, 1)

\* bytes_per_line = (width + 7) // 8; total_size = bytes_per_line * height;
\* the default center; a center of -1 stands for None
build_job_header_raster(width, height, depth, power, center_x, center_y) ==
    LET bytes_per_line == (width + 7) \div 8
        total_size == bytes_per_line * height
        cx == IF center_x = -1 THEN (width \div 2) + 67 ELSE center_x
        cy == IF center_y = -1 THEN 760 ELSE center_y
    IN build_job_header_custom(width, height, power, depth, 0, 0, total_size,
                               0, 0, 0, cx, cy, 1)

-----------------------------------------------------------------------------
(* SpecJob: one job, by engrave_transport, by mark_position_transport or    *)
(* by build_commands, with the JOB_HEADER it builds kept.                   *)

JobInputs ==
    {<<"engrave_transport", w, h>> : w \in {1, 8, 9, 1600}, h \in 1..MaxHeight}
      \cup {<<"mark_position_transport", 0, 0>>}
      \cup {<<"build_commands", w, h>> : w \in {8, 16, 1600}, h \in {1, 2, 1520}}

JobStartPc(o) ==
    IF o = "engrave_transport" THEN "et_load"
    ELSE IF o = "mark_position_transport" THEN "mk_start"
    ELSE "bc_job"

JobLoc == [header |-> <<>>] @@ IdleLoc

InitJob ==
    /\ serial_lock = [owner |-> NoThread, count |-> 0]
    /\ dry_run \in BOOLEAN
    /\ burn_cancel_event = FALSE
    /\ wire = <<>>
    /\ sleeps = <<>>
    /\ device_manager = ConnectedManager
    /\ now = 0
    /\ \E j \in JobInputs :
         /\ loc = [t \in Threads |->
                     IF t = T1
                     THEN [JobLoc EXCEPT !.op = j[1], !.width = j[2], !.height = j[3]]
                     ELSE JobLoc]
         /\ pc = [t \in Threads |-> IF t = T1 THEN JobStartPc(j[1]) ELSE "idle"]
    /\ phase = [t \in Threads |-> "idle"]

\* the JOB_HEADER each driver function builds before it sends it:
\* engrave_transport from the image size, mark_position_transport for its
\* one 1x1 pixel with total_size=1
JobHeaderOf(l) ==
    IF l.op = "mark_position_transport"
    THEN build_job_header_custom(l.width, l.height, 500, 10, 0, 0, 1, 0, 0, 0, 800, 800, 1)
    ELSE build_job_header_raster(l.width, l.height, SeqDepth, SeqPower, -1, -1)

\* header = build_job_header...(); transport.write(header) in send_cmd
JobHeaderWrite(t) ==
    /\ pc[t] = "JOB_HEADER"
    /\ phase[t] = "write"
    /\ wire' = Append(wire, CurrentFrame(t))
    /\ loc' = [loc EXCEPT ![t].sent = Len(wire) + 1,
                          ![t].header = JobHeaderOf(loc[t])]
    /\ phase' = [phase EXCEPT ![t] = "read"]
    /\ UNCHANGED <<now, device_manager, serial_lock, dry_run, burn_cancel_event, sleeps, pc>>

\* transport.write(data) in send_cmd, for the other frames
JobOtherWrite(t) ==
    /\ pc[t] # "JOB_HEADER"
    /\ SendCmdWrite(t)

\* build_commands: the sequence for the packed image; its JOB_HEADER and
\* the payload carried by each of its DATA commands
JobBuild(t) ==
    /\ pc[t] = "bc_job"
    /\ LET row == [i \in 1..(loc[t].width \div 8) |-> 0]
           commands == build_commands_seq(row, loc[t].height, SeqDepth, SeqPower, 800, 760)
           data == SelectSeq(commands, LAMBDA c : c.opcode = OP_DATA)
       IN loc' = [loc EXCEPT ![t].header = commands[2].payload,
                             ![t].payload_lines =
                                [k \in 1..Len(data) |-> Len(data[k].payload) - 4]]
    /\ pc' = [pc EXCEPT ![t] = "returned"]
    /\ UNCHANGED <<now, device_manager, serial_lock, dry_run, burn_cancel_event, wire, sleeps, phase>>

NextJob ==
    \/ EngraveLoad(T1)
    \/ MarkStart(T1)
    \/ JobBuild(T1)
    \/ JobHeaderWrite(T1)
    \/ JobOtherWrite(T1)
    \/ SendCmdRead(T1)
    \/ CheckedSent(T1)
    \/ MarkChecked(T1)
    \/ EngravePending(T1)
    \/ MarkBurn(T1)
    \/ BurnPayloadFor(T1)
    \/ BurnPayloadWhile(T1)
    \/ BurnPayloadAttempt(T1)
    \/ BurnPayloadSent(T1)
    \/ BurnPayloadExcept(T1)
    \/ EngraveDryRun(T1)
    \/ WaitStatus(T1)
    \/ WaitIdle(T1)
    \/ WaitMax(T1)
    \/ MarkWait(T1)
    \/ MarkExcept(T1)

SpecJob == InitJob /\ [][NextJob]_vars


-----------------------------------------------------------------------------
(* protocol.burn_payload over a serial line whose replies may be late: the  *)
(* device answers every DATA frame with one ACK, the ACK reaches the input  *)
(* buffer at any later time, and send_cmd reads whatever the buffer holds   *)
(* by its deadline. Neither send_cmd nor burn_payload clears the buffer.    *)

StaleLines == {<<1>>, <<1, 1>>, <<1901>>}
StaleRetries == {1, 2, 3}

\* inflight: frames whose ACK has not reached the buffer; tags: for every
\* buffered byte the frame it answers; credited: the ACKs send_cmd accepted.
StaleLoc == [inflight |-> <<>>, tags |-> <<>>, credited |-> <<>>] @@ IdleLoc

InitStale ==
    /\ InitShared
    /\ \E lines \in StaleLines, m \in StaleRetries :
         loc = [t \in Threads |->
                  IF t = T1
                  THEN [StaleLoc EXCEPT !.op = "burn_payload",
                                        !.payload_lines = lines,
                                        !.max_retries = m]
                  ELSE StaleLoc]
    /\ pc = [t \in Threads |-> IF t = T1 THEN "bp_for" ELSE "idle"]
    /\ phase = [t \in Threads |-> "idle"]

\* transport.write(data) in send_cmd: nothing is cleared before the write
StaleWrite(t) ==
    /\ pc[t] = "DATA"
    /\ phase[t] = "write"
    /\ wire' = Append(wire, CurrentFrame(t))
    /\ loc' = [loc EXCEPT ![t].sent = Len(wire) + 1,
                          ![t].inflight = Append(@, Len(wire) + 1)]
    /\ phase' = [phase EXCEPT ![t] = "read"]
    /\ UNCHANGED <<now, device_manager, serial_lock, dry_run, burn_cancel_event, sleeps, pc>>

\* the device's ACK to the oldest unanswered frame reaches the input buffer
StaleArrive(t) ==
    /\ loc[t].inflight # <<>>
    /\ pc[t] \in {"DATA", "bp_except", "bp_attempt", "bp_while", "bp_for"}
    /\ loc' = [loc EXCEPT ![t].inflight = Tail(@),
                          ![t].stream = Append(@, ACK),
                          ![t].tags = Append(@, Head(loc[t].inflight))]
    /\ UNCHANGED <<now, device_manager, serial_lock, dry_run, burn_cancel_event, wire, sleeps, pc, phase>>

\* the read loop of send_cmd: bytes come off the buffer until the stop
\* condition holds or the buffer is empty at the deadline
StaleRead(t) ==
    /\ pc[t] = "DATA"
    /\ phase[t] = "read"
    /\ LET rx == send_cmd_loop(loc[t].stream, <<>>, Cmd(pc[t]).expect_ack, Cmd(pc[t]).min_len)
       IN /\ loc' = [loc EXCEPT ![t].rx = rx,
                                ![t].stream = MockRest(@, Len(rx)),
                                ![t].tags = MockRest(@, Len(rx)),
                                ![t].credited =
                                    IF AckCount(rx) > 0
                                    THEN Append(@, [frame |-> loc[t].sent,
                                                    ack_for |-> loc[t].tags[Len(rx)]])
                                    ELSE @]
          /\ wire' = [wire EXCEPT ![loc[t].sent].reply =
                               ReplyKind(rx, Cmd(pc[t]).expect_ack)]
    /\ phase' = [phase EXCEPT ![t] = "log"]
    /\ UNCHANGED <<now, device_manager, serial_lock, dry_run, burn_cancel_event, sleeps, pc>>

NextStale ==
    \/ StaleWrite(T1)
    \/ StaleArrive(T1)
    \/ StaleRead(T1)
    \/ BurnPayloadFor(T1)
    \/ BurnPayloadWhile(T1)
    \/ BurnPayloadAttempt(T1)
    \/ BurnPayloadSent(T1)
    \/ BurnPayloadExcept(T1)

SpecStale == InitStale /\ [][NextStale]_vars


-----------------------------------------------------------------------------
(* The end of engrave_transport on a serial line: INIT #1, INIT #2 and      *)
(* wait_for_completion read the same input buffer, into which the device    *)
(* puts its status frames at any time after INIT #1 was written.            *)

MaxEmit == 3
DonePcts == {0, 50, 100}

\* emitted: the status frames the device has sent, each with the INIT whose
\* send_cmd was reading at that moment, "between" outside a read of INIT, or
\* the control point of the wait; init_rx: what each INIT's send_cmd returned.
DoneLoc == [emitted |-> <<>>, init_rx |-> <<>>] @@ IdleLoc

InitDone ==
    /\ InitShared
    /\ \E n \in 1..MaxLines :
         loc = [t \in Threads |->
                  IF t = T1
                  THEN [DoneLoc EXCEPT !.op = "engrave_transport", !.chunks = n]
                  ELSE DoneLoc]
    /\ pc = [t \in Threads |-> IF t = T1 THEN "et_dry" ELSE "idle"]
    /\ phase = [t \in Threads |-> "idle"]

\* the device sends FF FF 00 pct; it is silent once it has sent 100
DeviceEmit(t) ==
    /\ pc[t] \in {"INIT1", "INIT2", "wait"}
    /\ Len(wire) > 0
    /\ Len(loc[t].emitted) < MaxEmit
    /\ \E pct \in DonePcts :
         /\ \A k \in 1..Len(loc[t].emitted) :
               loc[t].emitted[k].pct <= pct /\ loc[t].emitted[k].pct < 100
         /\ loc' = [loc EXCEPT ![t].stream = @ \o StatusFrame(pct),
                               ![t].emitted =
                                   Append(@, [pct |-> pct,
                                              during |-> IF pc[t] \in {"INIT1", "INIT2"}
                                                            /\ phase[t] # "read"
                                                         THEN "between" ELSE pc[t]])]
    /\ UNCHANGED <<now, device_manager, serial_lock, dry_run, burn_cancel_event, wire, sleeps, pc, phase>>

\* the read loop of send_cmd for INIT: expect_ack is false, so it returns at
\* the first heartbeat or status frame tail, whatever the percentage
InitRead(t) ==
    /\ pc[t] \in {"INIT1", "INIT2"}
    /\ phase[t] = "read"
    /\ LET rx == send_cmd_loop(loc[t].stream, <<>>, Cmd(pc[t]).expect_ack, Cmd(pc[t]).min_len)
       IN /\ loc' = [loc EXCEPT ![t].rx = rx,
                                ![t].stream = MockRest(@, Len(rx)),
                                ![t].init_rx = Append(@, rx)]
          /\ wire' = [wire EXCEPT ![loc[t].sent].reply =
                               ReplyKind(rx, Cmd(pc[t]).expect_ack)]
    /\ phase' = [phase EXCEPT ![t] = "log"]
    /\ UNCHANGED <<now, device_manager, serial_lock, dry_run, burn_cancel_event, sleeps, pc>>

\* wait_for_completion, one buffered status frame at a time: the bytes of
\* the next frame are read, buf ends in FF FF 00 pct, and a percentage that
\* differs from last_pct is stored, logged, and returned on when it is 100
DoneWaitFrame(t) ==
    /\ pc[t] = "wait"
    /\ loc[t].stream # <<>>
    /\ LET frame == MockRead(loc[t].stream, 4)
           pct == frame[Len(frame)]
           fresh == WaitStatusTail(frame) /\ pct # loc[t].last_pct
       IN /\ loc' = [loc EXCEPT ![t].stream = MockRest(@, 4),
                                ![t].buf = TrimBuf(@ \o frame),
                                ![t].last_pct = IF fresh THEN pct ELSE @,
                                ![t].status = IF fresh /\ pct = 100 THEN "complete" ELSE @]
          /\ pc' = [pc EXCEPT ![t] = IF fresh /\ pct = 100 THEN "et_result" ELSE "wait"]
    /\ UNCHANGED <<now, device_manager, serial_lock, dry_run, burn_cancel_event, wire, sleeps, phase>>

\* wait_for_completion: the buffer stays empty for idle_s seconds
DoneWaitIdle(t) ==
    /\ pc[t] = "wait"
    /\ loc[t].stream = <<>>
    /\ now' = now + ENGRAVE_IDLE_S + 1
    /\ IdleExpired(now', now, ENGRAVE_IDLE_S)
    /\ loc' = [loc EXCEPT ![t].status = "idle_timeout"]
    /\ pc' = [pc EXCEPT ![t] = "et_result"]
    /\ UNCHANGED <<device_manager, serial_lock, dry_run, burn_cancel_event, wire, sleeps, phase>>

NextDone ==
    \/ EngraveDryRun(T1)
    \/ SendCmdWrite(T1)
    \/ DeviceEmit(T1)
    \/ InitRead(T1)
    \/ CheckedSent(T1)
    \/ DoneWaitFrame(T1)
    \/ DoneWaitIdle(T1)
    \/ EngraveResult(T1)

SpecDone == InitDone /\ [][NextDone]_vars



-----------------------------------------------------------------------------
(* K6DeviceManager over a sequence of connect() and disconnect() calls      *)

MaxCalls == 3

ManagerOps == {"connect", "disconnect"}

InitManager ==
    /\ serial_lock = [owner |-> NoThread, count |-> 0]
    /\ dry_run = FALSE
    /\ burn_cancel_event = FALSE
    /\ wire = <<>>
    /\ sleeps = <<>>
    /\ device_manager = NewManager
    /\ now = 0
    /\ loc = [t \in Threads |-> IdleLoc]
    /\ pc = [t \in Threads |-> IF t = T1 THEN "dm_idle" ELSE "idle"]
    /\ phase = [t \in Threads |-> "idle"]

\* the next call on the manager; i counts the calls made
ManagerCall(t) ==
    /\ pc[t] \in {"dm_idle", "done"}
    /\ loc[t].i < MaxCalls
    /\ \E o \in ManagerOps :
         /\ loc' = [loc EXCEPT ![t] = [IdleLoc EXCEPT !.op = o, !.i = loc[t].i + 1]]
         /\ pc' = [pc EXCEPT ![t] = IF o = "connect" THEN "dm_connect" ELSE "dm_disconnect"]
    /\ UNCHANGED <<now, device_manager, serial_lock, dry_run, burn_cancel_event, wire, sleeps, phase>>

\* disconnect(): transport.close() if there is one, then
\* self.transport = None; self.connected = False; self.version = None
ManagerDisconnect(t) ==
    /\ pc[t] = "dm_disconnect"
    /\ device_manager' = [connected |-> FALSE, version |-> "None", transport |-> "None"]
    /\ loc' = [loc EXCEPT ![t].ok = "True"]
    /\ pc' = [pc EXCEPT ![t] = "done"]
    /\ UNCHANGED <<now, serial_lock, dry_run, burn_cancel_event, wire, sleeps, phase>>

NextManager ==
    \/ ManagerCall(T1)
    \/ ManagerDisconnect(T1)
    \/ ManagerOpen(T1)
    \/ ConnectStop(T1)
    \/ SendCmdWrite(T1)
    \/ SendCmdRead(T1)
    \/ VersionSent(T1)
    \/ ConnectSent(T1)
    \/ ManagerConnected(T1)
    \/ ManagerExcept(T1)

SpecManager == InitManager /\ [][NextManager]_vars


-----------------------------------------------------------------------------
(* driver.connect_transport on a serial line whose input buffer is not      *)
(* empty: bytes may wait in it when the port is opened, the device may      *)
(* answer the STOP that nobody reads, and send_cmd never clears the buffer. *)

StaleBytes == {<<>>, <<ACK>>, <<0>>, <<0, 0>>, HEARTBEAT}
StopReplies == {<<>>, <<ACK>>}
DeviceVersions == {<<4, 1, 6>>, <<0, 0, 1>>}
AckReplies == {<<>>, <<ACK>>}

\* tags: for every buffered byte the frame it answers, 0 for a byte that
\* waited before any frame was written; ver_tags: the tags of the bytes taken
\* as the version; credited: the ACKs the checked commands accepted.
PromptLoc ==
    [tags |-> <<>>, ver_tags |-> <<>>, credited |-> <<>>, device_version |-> <<>>]
        @@ IdleLoc

InitPrompt ==
    /\ serial_lock = [owner |-> NoThread, count |-> 0]
    /\ dry_run = FALSE
    /\ burn_cancel_event = FALSE
    /\ wire = <<>>
    /\ sleeps = <<>>
    /\ device_manager = NewManager
    /\ now = 0
    /\ \E stale \in StaleBytes, v \in DeviceVersions :
         loc = [t \in Threads |->
                  IF t = T1
                  THEN [PromptLoc EXCEPT !.op = "connect",
                                         !.stream = stale,
                                         !.tags = [k \in 1..Len(stale) |-> 0],
                                         !.device_version = v]
                  ELSE PromptLoc]
    /\ pc = [t \in Threads |-> IF t = T1 THEN "dm_connect" ELSE "idle"]
    /\ phase = [t \in Threads |-> "idle"]

\* What the device sends back for a frame: its version for VERSION, an ACK
\* or nothing for the others.
DeviceReplies(opcode, version) ==
    IF opcode = OP_VERSION THEN {version}
    ELSE IF opcode = OP_STOP THEN StopReplies
    ELSE AckReplies

\* transport.write(STOP): written, and no reply is read
PromptStop(t) ==
    /\ pc[t] = "ct_stop"
    /\ wire' = Append(wire, PlainFrame(t, OP_STOP))
    /\ \E reply \in DeviceReplies(OP_STOP, loc[t].device_version) :
         loc' = [loc EXCEPT ![t].stream = @ \o reply,
                            ![t].tags = @ \o [k \in 1..Len(reply) |-> Len(wire) + 1]]
    /\ pc' = [pc EXCEPT ![t] = "VERSION"]
    /\ phase' = [phase EXCEPT ![t] = "write"]
    /\ UNCHANGED <<now, serial_lock, dry_run, burn_cancel_event, sleeps, device_manager>>

\* transport.write(data) in send_cmd; the device's reply follows in time
PromptWrite(t) ==
    /\ pc[t] \in {"VERSION", "CONNECT1", "CONNECT2", "HOME"}
    /\ phase[t] = "write"
    /\ wire' = Append(wire, CurrentFrame(t))
    /\ \E reply \in DeviceReplies(CurrentFrame(t).opcode, loc[t].device_version) :
         loc' = [loc EXCEPT ![t].sent = Len(wire) + 1,
                            ![t].stream = @ \o reply,
                            ![t].tags = @ \o [k \in 1..Len(reply) |-> Len(wire) + 1]]
    /\ phase' = [phase EXCEPT ![t] = "read"]
    /\ UNCHANGED <<now, device_manager, serial_lock, dry_run, burn_cancel_event, sleeps, pc>>

\* the read loop of send_cmd: bytes come off the buffer, oldest first
PromptRead(t) ==
    /\ pc[t] \in {"VERSION", "CONNECT1", "CONNECT2", "HOME"}
    /\ phase[t] = "read"
    /\ LET rx == send_cmd_loop(loc[t].stream, <<>>, Cmd(pc[t]).expect_ack, Cmd(pc[t]).min_len)
           taken == MockRead(loc[t].tags, Len(rx))
       IN /\ loc' = [loc EXCEPT ![t].rx = rx,
                                ![t].stream = MockRest(@, Len(rx)),
                                ![t].tags = MockRest(@, Len(rx)),
                                ![t].ver_tags =
                                    IF pc[t] = "VERSION" THEN MockRead(taken, 3) ELSE @,
                                ![t].credited =
                                    IF Cmd(pc[t]).expect_ack /\ AckCount(rx) > 0
                                    THEN Append(@, [frame |-> loc[t].sent,
                                                    ack_for |-> taken[Len(rx)]])
                                    ELSE @]
          /\ wire' = [wire EXCEPT ![loc[t].sent].reply =
                               ReplyKind(rx, Cmd(pc[t]).expect_ack)]
    /\ phase' = [phase EXCEPT ![t] = "log"]
    /\ UNCHANGED <<now, device_manager, serial_lock, dry_run, burn_cancel_event, sleeps, pc>>

NextPrompt ==
    \/ ManagerOpen(T1)
    \/ PromptStop(T1)
    \/ PromptWrite(T1)
    \/ PromptRead(T1)
    \/ VersionSent(T1)
    \/ ConnectSent(T1)
    \/ ManagerConnected(T1)
    \/ ManagerExcept(T1)

SpecPrompt == InitPrompt /\ [][NextPrompt]_vars


-----------------------------------------------------------------------------
(* The frame builders of K6CommandBuilder next to those of protocol: each   *)
(* pair is applied to the same arguments.                                   *)

\* K6CommandBuilder.checksum: total = sum(packet[:-1]); (-total) & 0xFF
K6CommandBuilder_checksum(packet) ==
    LET total == IF Len(packet) >= 1 THEN SumRange(packet, 1, Len(packet) - 1) ELSE 0
    IN (256 - (total % 256)) % 256

\* K6CommandBuilder.build_data_packet: ValueError above DATA_CHUNK bytes,
\* else opcode, length high byte first, payload, cls.checksum(pkt)
K6CommandBuilder_build_data_packet(payload) ==
    IF Len(payload) > DATA_CHUNK
    THEN [exc |-> "ValueError", payload |-> <<>>]
    ELSE LET packet_len == Len(payload) + 4
             pkt == <<34, Msb(packet_len), Lsb(packet_len)>> \o payload \o <<0>>
         IN [exc |-> "None",
             payload |-> [pkt EXCEPT ![packet_len] = K6CommandBuilder_checksum(pkt)]]

\* mutant: an omitted center_y defaults to 760 as in the job header
K6CommandBuilder_build_bounds_Center760(width, height, center_x, center_y) ==
    LET cx == IF center_x = -1 THEN (width \div 2) + 67 ELSE center_x
        cy == IF center_y = -1 THEN 760 ELSE center_y
    IN [opcode |-> OP_BOUNDS,
        payload |-> <<32, 0, 11>> \o <<Msb(width), Lsb(width)>>
                    \o <<Msb(height), Lsb(height)>>
                    \o <<Msb(cx), Lsb(cx)>> \o <<Msb(cy), Lsb(cy)>>]

\* K6CommandBuilder.build_bounds: the center defaults, then the 11 bytes;
\* a center of -1 stands for None
K6CommandBuilder_build_bounds(width, height, center_x, center_y) ==
    LET cx == IF center_x = -1 THEN (width \div 2) + 67 ELSE center_x
        cy == IF center_y = -1 THEN height \div 2 ELSE center_y
    IN [opcode |-> OP_BOUNDS,
        payload |-> <<32, 0, 11>> \o <<Msb(width), Lsb(width)>>
                    \o <<Msb(height), Lsb(height)>>
                    \o <<Msb(cx), Lsb(cx)>> \o <<Msb(cy), Lsb(cy)>>]

AgreeWidths == {1, 8, 9, 255, 256, 1600}
AgreeHeights == {1, 2, 1520}
AgreeDepths == {1, 100, 255}
AgreePowers == {0, 500, 1000}
AgreeCentersX == {-1, 0, 800}
AgreeCentersY == {-1, 0, 760}

\* kind: which pair is applied; built: what the K6CommandBuilder method
\* gave; packet: what the protocol function gave.
AgreeLoc ==
    [kind |-> "None", payload |-> <<>>, depth |-> 0, power |-> 0,
     center_x |-> -1, center_y |-> -1,
     built |-> [exc |-> "None", payload |-> <<>>],
     packet |-> [exc |-> "None", payload |-> <<>>]] @@ IdleLoc

AgreeInit(l) ==
    /\ loc = [t \in Threads |-> IF t = T1 THEN l ELSE AgreeLoc]
    /\ pc = [t \in Threads |-> IF t = T1 THEN "ag_call" ELSE "idle"]
    /\ phase = [t \in Threads |-> "idle"]

InitAgree ==
    /\ InitShared
    /\ \/ \E p \in Payloads :
            AgreeInit([AgreeLoc EXCEPT !.kind = "data", !.payload = p])
       \/ \E w \in AgreeWidths, h \in AgreeHeights, d \in AgreeDepths,
             p \in AgreePowers, cx \in AgreeCentersX, cy \in AgreeCentersY :
            AgreeInit([AgreeLoc EXCEPT !.kind = "header", !.width = w, !.height = h,
                                       !.depth = d, !.power = p,
                                       !.center_x = cx, !.center_y = cy])
       \/ \E w \in AgreeWidths, h \in AgreeHeights,
             cx \in AgreeCentersX, cy \in AgreeCentersY :
            AgreeInit([AgreeLoc EXCEPT !.kind = "bounds", !.width = w, !.height = h,
                                       !.center_x = cx, !.center_y = cy])

\* K6CommandBuilder.build_data_packet(p) and protocol.build_data_packet(p)
AgreeData(t) ==
    /\ pc[t] = "ag_call"
    /\ loc[t].kind = "data"
    /\ loc' = [loc EXCEPT
                 ![t].built = K6CommandBuilder_build_data_packet(loc[t].payload),
                 ![t].packet = [exc |-> build_data_packet(loc[t].payload).exc,
                                payload |-> build_data_packet(loc[t].payload).pkt]]
    /\ pc' = [pc EXCEPT ![t] = "ag_done"]
    /\ UNCHANGED <<now, device_manager, serial_lock, dry_run, burn_cancel_event, wire, sleeps, phase>>

\* K6CommandBuilder.build_job_header(...) and protocol.build_job_header_raster(...)
AgreeHeader(t) ==
    /\ pc[t] = "ag_call"
    /\ loc[t].kind = "header"
    /\ LET l == loc[t]
       IN loc' = [loc EXCEPT
                    ![t].built = [exc |-> "None",
                                  payload |-> build_job_header(l.width, l.height, l.depth,
                                                               l.power, l.center_x,
                                                               l.center_y).payload],
                    ![t].packet = [exc |-> "None",
                                   payload |-> build_job_header_raster(l.width, l.height,
                                                                       l.depth, l.power,
                                                                       l.center_x,
                                                                       l.center_y)]]
    /\ pc' = [pc EXCEPT ![t] = "ag_done"]
    /\ UNCHANGED <<now, device_manager, serial_lock, dry_run, burn_cancel_event, wire, sleeps, phase>>

\* K6CommandBuilder.build_bounds(...) and protocol.build_bounds_packet(...)
AgreeBounds(t) ==
    /\ pc[t] = "ag_call"
    /\ loc[t].kind = "bounds"
    /\ LET l == loc[t]
       IN loc' = [loc EXCEPT
                    ![t].built = [exc |-> "None",
                                  payload |-> K6CommandBuilder_build_bounds(
                                                  l.width, l.height,
                                                  l.center_x, l.center_y).payload],
                    ![t].packet = [exc |-> "None",
                                   payload |-> build_bounds_packet(l.width, l.height,
                                                                   l.center_x, l.center_y)]]
    /\ pc' = [pc EXCEPT ![t] = "ag_done"]
    /\ UNCHANGED <<now, device_manager, serial_lock, dry_run, burn_cancel_event, wire, sleeps, phase>>

NextAgree ==
    \/ AgreeData(T1)
    \/ AgreeHeader(T1)
    \/ AgreeBounds(T1)

SpecAgree == InitAgree /\ [][NextAgree]_vars


-----------------------------------------------------------------------------
(* SpecChecked: one call of send_cmd_checked, for every response send_cmd  *)
(* can hand it, of up to MaxRxLen bytes, and both values of expect_ack.     *)

RxBytes == {0, 9, 100, 254, 255}

InitChecked ==
    /\ InitShared
    /\ \E rx \in SeqsUpTo(RxBytes, MaxRxLen), e \in BOOLEAN :
         loc = [t \in Threads |->
                  IF t = T1
                  THEN [IdleLoc EXCEPT !.op = "send_cmd_checked",
                                       !.rx = rx, !.expect_ack = e]
                  ELSE IdleLoc]
    /\ pc = [t \in Threads |-> IF t = T1 THEN "scc_check" ELSE "idle"]
    /\ phase = [t \in Threads |-> "idle"]

\* if not rx: raise K6TimeoutError; if expect_ack and ack == 0: raise
\* K6DeviceError; return rx
SendCmdCheckedReturn(t) ==
    /\ pc[t] = "scc_check"
    /\ LET e == send_cmd_checked(loc[t].rx, loc[t].expect_ack)
       IN /\ loc' = [loc EXCEPT ![t].exc = e,
                                ![t].ret = IF e = "None" THEN loc[t].rx ELSE <<>>]
          /\ pc' = [pc EXCEPT ![t] = IF e = "None" THEN "returned" ELSE "raised"]
    /\ UNCHANGED <<now, device_manager, serial_lock, dry_run, burn_cancel_event, wire, sleeps, phase>>

NextChecked == SendCmdCheckedReturn(T1)

SpecChecked == InitChecked /\ [][NextChecked]_vars

-----------------------------------------------------------------------------
(* Properties of burn_payload (SpecBurn) *)

IsData(f) == f.opcode = OP_DATA

\* The slice a DATA frame carries.
SliceOf(f) == [line |-> f.line, off |-> f.off, len |-> f.len]

\* Number of DATA frames written so far for the chunk at (line, off),
\* among the first n frames of the wire.
AttemptsOn(line, off, n) ==
    Cardinality({i \in 1..n : IsData(wire[i]) /\ wire[i].line = line /\ wire[i].off = off})

RECURSIVE Dedup(_)
Dedup(s) ==
    IF Len(s) <= 1 THEN s
    ELSE IF s[1] = s[2] THEN Dedup(Tail(s))
    ELSE <<s[1]>> \o Dedup(Tail(s))

RECURSIVE SlicesOfLine(_, _, _)
SlicesOfLine(i, len, off) ==
    IF off >= len THEN <<>>
    ELSE <<[line |-> i, off |-> off,
            len |-> IF len - off < 1900 THEN len - off ELSE 1900]>>
         \o SlicesOfLine(i, len, off + 1900)

RECURSIVE SlicesOfLines(_, _)
SlicesOfLines(lines, i) ==
    IF i >= Len(lines) THEN <<>>
    ELSE SlicesOfLine(i, lines[i + 1], 0) \o SlicesOfLines(lines, i + 1)

RECURSIVE SumCeil(_, _)
SumCeil(lines, i) ==
    IF i > Len(lines) THEN 0
    ELSE ((lines[i] + 1899) \div 1900) + SumCeil(lines, i + 1)

WireSlices == [i \in 1..Len(wire) |-> SliceOf(wire[i])]

RECURSIVE Doubling(_)
Doubling(k) == IF k <= 1 THEN 100 ELSE 2 * Doubling(k - 1)

\* C7: a chunk is written at most max_retries times; once max_retries
\* attempts on one chunk have failed burn_payload has raised K6DeviceError
\* naming that chunk's scanline and offset, has produced no count, and the
\* failing chunk's last attempt is the last DATA frame on the wire.
C7_RetryBudget ==
    LET l == loc[T1]
    IN /\ \A i \in 1..Len(wire) :
            AttemptsOn(wire[i].line, wire[i].off, Len(wire)) <= l.max_retries
       /\ (l.attempt >= 1 /\ l.attempt >= l.max_retries) => pc[T1] = "raised"
       /\ pc[T1] = "raised" =>
            /\ l.exc = "K6DeviceError"
            /\ l.chunks = -1
            /\ wire # <<>>
            /\ l.err_line = wire[Len(wire)].line
            /\ l.err_offset = wire[Len(wire)].off
            /\ AttemptsOn(l.err_line, l.err_offset, Len(wire)) = l.max_retries
            /\ \A i \in (Len(wire) - l.max_retries + 1)..Len(wire) :
                 SliceOf(wire[i]) = SliceOf(wire[Len(wire)])

\* C7 witness: three failed attempts on the second chunk of a 3000-byte line.
C7_Witness ==
    /\ pc[T1] = "raised"
    /\ loc[T1].max_retries = 3
    /\ loc[T1].err_offset = 1900
    /\ Len(wire) >= 4

\* C8: on return the chunks on the wire (retransmissions aside) are the
\* consecutive slices of every scanline, at most 1900 bytes each, in scanline
\* order then offset order, and the count returned is the sum of
\* ceil(len/1900) over the scanlines.
C8_Chunking ==
    pc[T1] = "returned" =>
        /\ Dedup(WireSlices) = SlicesOfLines(loc[T1].payload_lines, 0)
        /\ \A i \in 1..Len(wire) : wire[i].len <= 1900
        /\ loc[T1].chunks = SumCeil(loc[T1].payload_lines, 1)

\* The same statement for calls that are allowed at least one attempt.
C8_ChunkingWithAttempts == loc[T1].max_retries >= 1 => C8_Chunking

\* C9: the sleep after the k-th failed attempt on a chunk is 0.1 * 2^(k-1) s
\* (k counted per chunk from the frames written), successive sleeps on one
\* chunk double, and every sleep is followed by a further attempt on that
\* chunk once the call has ended.
C9_Backoff ==
    /\ \A j \in 1..Len(sleeps) :
         LET s == sleeps[j]
             k == AttemptsOn(s.line, s.offset, s.frames)
         IN /\ k >= 1
            /\ s.ms = Doubling(k)
            /\ (j > 1 /\ sleeps[j - 1].line = s.line /\ sleeps[j - 1].offset = s.offset)
                   => s.ms = 2 * sleeps[j - 1].ms
            /\ (j = 1 \/ sleeps[j - 1].line # s.line \/ sleeps[j - 1].offset # s.offset)
                   => s.ms = 100
            /\ pc[T1] \in {"raised", "returned"} =>
                   AttemptsOn(s.line, s.offset, Len(wire)) > k
    /\ pc[T1] = "raised" =>
         Cardinality({j \in 1..Len(sleeps) :
                        /\ sleeps[j].line = loc[T1].err_line
                        /\ sleeps[j].offset = loc[T1].err_offset})
           = loc[T1].max_retries - 1

\* C9 witness: 0.1 s then 0.2 s on one chunk, then 0.1 s again on the next.
C9_Witness ==
    /\ Len(sleeps) >= 3
    /\ sleeps[1].ms = 100 /\ sleeps[2].ms = 200 /\ sleeps[3].ms = 100
    /\ sleeps[1].offset = sleeps[2].offset
    /\ sleeps[3].offset # sleeps[2].offset
    /\ pc[T1] = "raised"

-----------------------------------------------------------------------------
(* Properties of engrave_transport (SpecEngrave) *)

\* The opcodes of the frames other than DATA, in the order written.
RECURSIVE SetupOps(_)
SetupOps(w) ==
    IF w = <<>> THEN <<>>
    ELSE IF IsData(Head(w)) THEN SetupOps(Tail(w))
    ELSE <<Head(w).opcode>> \o SetupOps(Tail(w))

EngraveOrder == <<OP_FRAMING, OP_JOB_HEADER, OP_CONNECT, OP_CONNECT, OP_INIT, OP_INIT>>

IsPrefix(a, b) == Len(a) <= Len(b) /\ SubSeq(b, 1, Len(a)) = a

GoodData == {i \in 1..Len(wire) : IsData(wire[i]) /\ wire[i].reply = "good"}

\* C4: with dry_run set engrave_transport writes no INIT frame and never
\* enters wait_for_completion, and when it returns it has uploaded a DATA
\* chunk for every scanline, in order, and reports ok = true with chunks
\* equal to the number of DATA chunks the device accepted.
C4_DryRun ==
    dry_run =>
        /\ \A i \in 1..Len(wire) : wire[i].opcode # OP_INIT
        /\ pc[T1] \notin {"INIT1", "INIT2", "wait"}
        /\ loc[T1].waited = 0
        /\ loc[T1].status \in {"None", "dry_run"}
        /\ pc[T1] = "returned" =>
             /\ loc[T1].ok = "True"
             /\ Dedup(WireSlices) =
                  <<[line |-> -1, off |-> 0, len |-> 0]>>
                    \o SlicesOfLines(loc[T1].payload_lines, 0)
             /\ Len(loc[T1].payload_lines) = loc[T1].height
             /\ loc[T1].chunks = Cardinality(GoodData)
             /\ loc[T1].chunks = loc[T1].height

\* C4 witness: a dry run of a two-line image returns after one
\* retransmission, with both chunks counted.
C4_Witness ==
    /\ dry_run
    /\ pc[T1] = "returned"
    /\ loc[T1].chunks = 2
    /\ Len(sleeps) = 1

\* C10: the frames other than DATA that engrave_transport writes are a
\* prefix of FRAMING, JOB_HEADER, CONNECT, CONNECT, INIT, INIT (each written
\* at most once), and when the reply to one of them is empty or lacks the
\* expected ACK that frame is the last one written and the call raises
\* K6TimeoutError or K6DeviceError.
C10_FailFast ==
    /\ IsPrefix(SetupOps(wire), EngraveOrder)
    /\ \A i \in 1..Len(wire) :
         (~IsData(wire[i]) /\ wire[i].reply = "bad") =>
             /\ i = Len(wire)
             /\ \/ pc[T1] \in CheckedPcs /\ phase[T1] = "log"
                \/ /\ pc[T1] = "raised"
                   /\ loc[T1].exc \in {"K6TimeoutError", "K6DeviceError"}
                   /\ loc[T1].err_at \in CheckedPcs
                   /\ loc[T1].ok = "None"

\* C10 witness: INIT #1 gets no reply after the upload and the call has
\* raised with one INIT frame on the wire.
C10_Witness ==
    /\ pc[T1] = "raised"
    /\ loc[T1].err_at = "INIT1"
    /\ loc[T1].exc = "K6TimeoutError"
    /\ wire # <<>>
    /\ wire[Len(wire)].opcode = OP_INIT
    /\ wire[Len(wire)].reply = "bad"
    /\ Cardinality({i \in 1..Len(wire) : wire[i].opcode = OP_INIT}) = 1

DataFrames == {i \in 1..Len(wire) : IsData(wire[i])}

InitFrames == {i \in 1..Len(wire) : wire[i].opcode = OP_INIT}

\* The slices of every scanline of the image, as a set.
AllSlices ==
    LET sl == SlicesOfLines(loc[T1].payload_lines, 0)
    IN {sl[k] : k \in 1..Len(sl)}

\* wait_for_completion has been entered.
InWait ==
    \/ pc[T1] = "wait"
    \/ loc[T1].status \in {"complete", "idle_timeout"}
    \/ loc[T1].err_at = "wait"

\* C15: without dry run the frames are written in the order FRAMING,
\* JOB_HEADER, CONNECT, CONNECT, the DATA chunks, INIT, INIT; no DATA frame
\* is written before CONNECT #2 is ACKed, no INIT frame before every chunk,
\* the last one included, is ACKed, and wait_for_completion is entered only
\* after INIT #2 has received a response.
C15_EngraveOrder ==
    /\ IsPrefix(SetupOps(wire), EngraveOrder)
    /\ \A i \in DataFrames :
         /\ i > 4
         /\ \A j \in 1..4 : ~IsData(wire[j])
         /\ wire[4].opcode = OP_CONNECT /\ wire[4].reply = "good"
         /\ \A j \in DataFrames :
              (j < i) => \/ wire[j].line < wire[i].line
                         \/ wire[j].line = wire[i].line /\ wire[j].off <= wire[i].off
    /\ \A i \in InitFrames :
         /\ ~dry_run
         /\ \A j \in DataFrames : j < i
         /\ \A sl \in AllSlices :
              \E g \in GoodData : g < i /\ SliceOf(wire[g]) = sl
         /\ \E d \in GoodData :
              /\ \A j \in DataFrames : j <= d
              /\ wire[d].line = Len(loc[T1].payload_lines) - 1
              /\ wire[d].off + wire[d].len = loc[T1].payload_lines[wire[d].line + 1]
    /\ InWait =>
         /\ ~dry_run
         /\ Cardinality(InitFrames) = 2
         /\ InitFrames = {Len(wire) - 1, Len(wire)}
         /\ wire[Len(wire)].reply = "good"
    /\ (~dry_run /\ pc[T1] = "returned") =>
         /\ SetupOps(wire) = EngraveOrder
         /\ InWait

\* C15 witness: a two-line engrave without dry run that retransmitted a
\* chunk, sent both INIT frames and completed.
C15_Witness ==
    /\ ~dry_run
    /\ pc[T1] = "returned"
    /\ loc[T1].status = "complete"
    /\ Len(loc[T1].payload_lines) = 2
    /\ Len(sleeps) >= 1
    /\ Cardinality(InitFrames) = 2

C19_WitnessBelow ==
    /\ pc[T1] = "returned"
    /\ loc[T1].status = "idle_timeout"
    /\ loc[T1].last_pct = 30
    /\ loc[T1].ok = "False"

-----------------------------------------------------------------------------
(* Properties of K6Service.engrave (SpecService, FairService) *)

\* The control points of engrave that lie inside the with block.
InLock(t) == pc[t] \notin {"idle", "svc_acquire", "done"}

HasFrames(t) == \E i \in 1..Len(wire) : wire[i].by = t

\* A caller that has reached the lock while another thread owns it.
Waiting(t) == pc[t] = "svc_acquire" /\ serial_lock.owner \notin {NoThread, t}

\* C1: the frames of two concurrent K6Service.engrave calls are never
\* merged on the wire (the frames of one call are contiguous), every frame
\* is written by the owner of serial_lock, and a call owns the lock from
\* before its first frame until after its last read.
C1_NoInterleave ==
    /\ \A i \in 1..(Len(wire) - 1) :
         wire[i].by # wire[i + 1].by =>
             \A k \in (i + 1)..Len(wire) : wire[k].by # wire[i].by
    /\ \A i \in 1..Len(wire) : wire[i].locked
    /\ \A t \in Clients : InLock(t) => serial_lock.owner = t

\* C1 witness: both calls are over and each has put its frames on the wire.
C1_Witness ==
    /\ pc["t1"] = "done" /\ pc["t2"] = "done"
    /\ HasFrames("t1") /\ HasFrames("t2")
    /\ Len(wire) >= 10

\* C5: a caller that reaches the lock while another engrave owns it does
\* not fail while it waits, eventually writes its own frames, and a call
\* that has ended (result returned, error caught, or cancellation raised)
\* no longer owns the lock.
C5_BlockThenRun ==
    /\ \A t \in Clients : Waiting(t) ~> HasFrames(t)
    /\ [](\A t \in Clients :
            /\ Waiting(t) => (loc[t].ok = "None" /\ loc[t].exc = "None")
            /\ pc[t] = "done" => serial_lock.owner # t)
    /\ []((\A t \in Clients : pc[t] = "done") => serial_lock.owner = NoThread)

\* C5 witness: the second caller waits at the lock while the first call is
\* unwinding from a cancellation, the lock not yet released.
C5_Witness ==
    /\ Waiting("t2")
    /\ pc["t1"] = "svc_finally"
    /\ loc["t1"].exc = "KeyboardInterrupt"
    /\ HasFrames("t1")

-----------------------------------------------------------------------------
(* Properties of the burn and stop routes (SpecRoutes) *)

\* The frames thread t has written after the first s frames of the wire.
FramesAfter(t, s) == {k \in (s + 1)..Len(wire) : wire[k].by = t}

FramesBefore(t, s) == {k \in 1..(s - 1) : wire[k].by = t}

\* The positions of the STOP frames: a STOP frame is written in the step
\* that sets the cancel event.
StopFrames == {s \in 1..Len(wire) : wire[s].opcode = OP_STOP}

\* C2: every frame on the wire was written by the thread that owned
\* serial_lock at that moment, and a thread that has a command in flight
\* (written, its response not yet read and logged) owns the lock.
C2_LockHeld ==
    /\ \A i \in 1..Len(wire) : wire[i].locked
    /\ \A t \in Clients : pc[t] \in {"xf_read", "xf_log"} => serial_lock.owner = t

\* C3: no INIT frame on the wire was written by a burn that was requested
\* with dry run enabled, and once no burn request is in progress the device
\* dry-run flag has the value it had before the requests.
C3_DryRunIsolated ==
    /\ \A i \in 1..Len(wire) :
         (wire[i].opcode = OP_INIT /\ wire[i].by \in Clients)
             => loc[wire[i].by].dry_run_override # "True"
    /\ (\A t \in Clients : pc[t] \in {"idle", "done"}) => dry_run = FALSE

\* C6: a burn that is between the write of a frame and the read of its
\* response has not been cancelled; a burn that had frames on the wire when
\* the cancel event was set writes at most one frame after that; if it wrote
\* one it ends with the cancelled result; and a burn that has ended does not
\* own the lock.
C6_CancelStopsBurn ==
    \A b \in Clients :
        /\ pc[b] = "xf_read" => loc[b].exc = "None"
        /\ pc[b] = "done" => serial_lock.owner # b
        /\ \A s \in StopFrames :
             FramesBefore(b, s) # {} =>
                 /\ Cardinality(FramesAfter(b, s)) <= 1
                 /\ (FramesAfter(b, s) # {} /\ pc[b] = "done")
                        => loc[b].status = "cancelled"

-----------------------------------------------------------------------------
(* Properties of send_cmd_checked (SpecChecked) *)

HasAck(rx) == \E i \in 1..Len(rx) : rx[i] = ACK

\* C11: send_cmd_checked raises K6TimeoutError exactly when the response is
\* empty, K6DeviceError exactly when it is non-empty, an ACK was expected
\* and it holds no 0x09 byte, and otherwise returns the response as it is;
\* a heartbeat-only response is returned when no ACK is expected.
C11_CheckedOutcome ==
    LET l == loc[T1]
    IN pc[T1] \in {"returned", "raised"} =>
         /\ (pc[T1] = "raised" /\ l.exc = "K6TimeoutError") <=> (l.rx = <<>>)
         /\ (pc[T1] = "raised" /\ l.exc = "K6DeviceError")
               <=> (l.rx # <<>> /\ l.expect_ack /\ ~HasAck(l.rx))
         /\ pc[T1] = "raised" => l.exc \in {"K6TimeoutError", "K6DeviceError"}
         /\ pc[T1] = "returned" => (l.exc = "None" /\ l.ret = l.rx)
         /\ (~l.expect_ack /\ l.rx = HEARTBEAT) => pc[T1] = "returned"

\* C11 witness: a heartbeat-only response has been returned to a caller
\* that expected no ACK.
C11_Witness ==
    /\ pc[T1] = "returned"
    /\ ~loc[T1].expect_ack
    /\ loc[T1].rx = HEARTBEAT
    /\ loc[T1].ret = HEARTBEAT

-----------------------------------------------------------------------------
(* Properties of connect (SpecConnect) *)

ConnectOrder == <<OP_STOP, OP_VERSION, OP_CONNECT, OP_CONNECT, OP_HOME>>

WireOps == [i \in 1..Len(wire) |-> wire[i].opcode]

\* C12: connect writes STOP, VERSION, CONNECT, CONNECT, HOME in that order
\* (all five when it succeeds), and nothing is read between the write of
\* STOP and the write of VERSION: STOP never gets a reply read for it.
C12_ConnectOrder ==
    /\ IsPrefix(WireOps, ConnectOrder)
    /\ (pc[T1] = "done" /\ loc[T1].ok = "True") => WireOps = ConnectOrder
    /\ Len(wire) >= 1 => wire[1].reply = "pending"
    /\ (Len(wire) = 1 /\ pc[T1] # "done") => (pc[T1] = "VERSION" /\ phase[T1] = "write")

\* C12 witness: a connect that succeeded, with the five frames written.
C12_Witness ==
    /\ pc[T1] = "done"
    /\ loc[T1].ok = "True"
    /\ Len(wire) = 5

\* The version strings of the version bytes the device may answer with.
ExpectedVersion(version) ==
    CASE version = <<4, 1, 6>>        -> "v4.1.6"
      [] version = <<0, 0, 1>>        -> "v0.0.1"
      [] version = <<12, 0, 255>>     -> "v12.0.255"
      [] version = <<255, 255, 255>>  -> "v255.255.255"

Acked(i) == i <= Len(wire) /\ wire[i].reply = "good"

\* C13: when VERSION was answered with three bytes and CONNECT #1,
\* CONNECT #2 and HOME were ACKed, connect returns true and the manager is
\* connected with version v<major>.<minor>.<patch> (04 01 06: v4.1.6).
C13_ConnectSuccess ==
    (/\ pc[T1] = "done"
     /\ Len(loc[T1].version) = 3
     /\ Acked(3) /\ Acked(4) /\ Acked(5))
    => /\ loc[T1].ok = "True"
       /\ device_manager.connected
       /\ is_connected(device_manager)
       /\ device_manager.version = ExpectedVersion(loc[T1].version)

\* C13 witness: version bytes 04 01 06 and three ACKs; connected as v4.1.6.
C13_Witness ==
    /\ pc[T1] = "done"
    /\ loc[T1].version = <<4, 1, 6>>
    /\ Acked(3) /\ Acked(4) /\ Acked(5)
    /\ device_manager = [connected |-> TRUE, version |-> "v4.1.6",
                         transport |-> "SerialTransport"]

\* The number of frames written when the named step has been sent.
StepIndex(p) ==
    CASE p = "VERSION" -> 2 [] p = "CONNECT1" -> 3 [] p = "CONNECT2" -> 4
      [] p = "HOME" -> 5

\* C14: a failing step of connect (fewer than 3 VERSION bytes; no response
\* or no ACK on CONNECT #1, CONNECT #2 or HOME) aborts the sequence: the
\* failing frame stays the last one written and the manager ends with
\* connected = false and is_connected() false.
C14_ConnectAbort ==
    /\ \A i \in 3..Len(wire) : wire[i].reply = "bad" => i = Len(wire)
    /\ (pc[T1] \in {"CONNECT1", "CONNECT2", "HOME", "dm_success"})
          => Len(loc[T1].version) = 3
    /\ pc[T1] \in {"dm_except", "done"} =>
         /\ (Len(loc[T1].version) < 3) => (Len(wire) = 2 /\ loc[T1].exc = "K6TimeoutError")
         /\ (loc[T1].exc # "None") =>
               /\ Len(wire) = StepIndex(loc[T1].err_at)
               /\ pc[T1] = "done" =>
                    /\ loc[T1].ok = "False"
                    /\ ~device_manager.connected
                    /\ ~is_connected(device_manager)
         /\ (\E i \in 3..Len(wire) : wire[i].reply = "bad") => loc[T1].exc # "None"

\* C14 witness: HOME got no usable response on a manager that was connected
\* before; the manager is now disconnected.
C14_Witness ==
    /\ pc[T1] = "done"
    /\ loc[T1].err_at = "HOME"
    /\ Len(wire) = 5
    /\ device_manager.version = "v4.1.6"
    /\ loc[T1].version # <<4, 1, 6>>
    /\ ~device_manager.connected

-----------------------------------------------------------------------------
(* Properties of the size check of engrave_transport (SpecSetup) *)

\* C20: an image wider than 1600 px or higher than 1520 px is rejected
\* with a ValueError before any frame is written.
C20_SizeLimit ==
    (loc[T1].width > 1600 \/ loc[T1].height > 1520) =>
        /\ wire = <<>>
        /\ pc[T1] \in {"et_load", "raised"}
        /\ pc[T1] = "raised" => loc[T1].exc = "ValueError"

\* What the code does: the limit is 1600 px in both directions.
C20_SizeLimit1600 ==
    (loc[T1].width > 1600 \/ loc[T1].height > 1600) =>
        /\ wire = <<>>
        /\ pc[T1] \in {"et_load", "raised"}
        /\ pc[T1] = "raised" => loc[T1].exc = "ValueError"

\* An image 1521 px high has been accepted and its FRAMING frame written.
C20_Accepted1521 ==
    /\ loc[T1].height = 1521
    /\ Len(loc[T1].payload_lines) = 1521
    /\ wire # <<>>
    /\ wire[1].opcode = OP_FRAMING

-----------------------------------------------------------------------------
(* Properties of wait_for_completion (SpecWait) *)

\* Every byte received so far, in order of arrival.
ReceivedBytes == [i \in 1..Len(loc[T1].received) |-> loc[T1].received[i].byte]

EndsComplete(bs) ==
    Len(bs) >= 4 /\ SubSeq(bs, Len(bs) - 3, Len(bs)) = <<255, 255, 0, 100>>

\* The percentage of the latest FF FF 00 XX in the bytes, -1 if there is none.
RECURSIVE LastPct(_)
LastPct(bs) ==
    IF Len(bs) < 4 THEN -1
    ELSE IF SubSeq(bs, Len(bs) - 3, Len(bs) - 1) = <<255, 255, 0>> THEN bs[Len(bs)]
    ELSE LastPct(SubSeq(bs, 1, Len(bs) - 1))

\* When the latest byte arrived; the start of the wait if none has.
LastArrival ==
    IF loc[T1].received = <<>> THEN loc[T1].start
    ELSE loc[T1].received[Len(loc[T1].received)].at

\* The status logger raised KeyboardInterrupt for a cancelled burn.
Cancelled ==
    /\ pc[T1] = "raised"
    /\ loc[T1].exc = "KeyboardInterrupt"
    /\ burn_cancel_event
    /\ loc[T1].csv_logger = "progress"

\* C16: as soon as the last four bytes received are FF FF 00 64 the wait has
\* returned 'complete', whatever was received before them, and it returns
\* 'complete' in no other case (a logger that raises for a cancelled burn
\* ends the wait with its exception instead).
C16_Complete ==
    /\ EndsComplete(ReceivedBytes) =>
         \/ pc[T1] = "returned" /\ loc[T1].status = "complete"
         \/ Cancelled
    /\ loc[T1].status = "complete" =>
         /\ pc[T1] = "returned"
         /\ EndsComplete(ReceivedBytes)
         /\ loc[T1].stream = <<>> \/ Len(ReceivedBytes) >= 4

\* C16 witness: 'complete' after two heartbeats, an ACK and the status
\* frames for 0 % and 50 %: 21 bytes, more than the buffer keeps.
C16_Witness ==
    /\ pc[T1] = "returned"
    /\ loc[T1].status = "complete"
    /\ ReceivedBytes = HEARTBEAT \o HEARTBEAT \o <<ACK>> \o StatusFrame(0)
                         \o StatusFrame(50) \o StatusFrame(100)
    /\ Len(loc[T1].buf) = BUF_KEEP

\* C17: idle_timeout is returned only when more than idle_s has passed
\* since the latest byte of any kind (since the start if there was none),
\* and carries the last percentage seen (-1: none); a read that brought
\* nothing with more than idle_s passed never lets the wait go on.
C17_IdleTimeout ==
    /\ loc[T1].last_pct = LastPct(ReceivedBytes)
    /\ (pc[T1] = "returned" /\ loc[T1].status = "idle_timeout") =>
         /\ now - LastArrival > loc[T1].idle_s
         /\ loc[T1].idle_checked = now
    /\ (loc[T1].status # "idle_timeout" /\ loc[T1].idle_checked >= LastArrival) =>
         loc[T1].idle_checked - LastArrival <= loc[T1].idle_s
    /\ loc[T1].status = "idle_timeout" => pc[T1] = "returned"

\* C17 witness: idle_timeout at 50 %, more than idle_s after the start of
\* the wait because the bytes received restarted the idle timer.
C17_Witness ==
    /\ pc[T1] = "returned"
    /\ loc[T1].status = "idle_timeout"
    /\ loc[T1].last_pct = 50
    /\ LastArrival - loc[T1].start > loc[T1].idle_s
    /\ ReceivedBytes = StatusFrame(50) \o HEARTBEAT

\* C17 witness without any byte: idle_timeout with no percentage.
C17_WitnessNone ==
    /\ pc[T1] = "returned"
    /\ loc[T1].status = "idle_timeout"
    /\ loc[T1].last_pct = -1
    /\ loc[T1].received = <<>>

\* C18: an iteration that starts after max_wait_s has elapsed raises
\* K6TimeoutError: no read is made and neither 'complete' nor
\* 'idle_timeout' is returned from it; the error is raised in no other case.
C18_HardLimit ==
    LET late == loc[T1].iter_start - loc[T1].start > loc[T1].max_wait_s
    IN /\ pc[T1] = "wfc_read" => ~late
       /\ pc[T1] = "returned" => ~late
       /\ late => (pc[T1] = "raised" /\ loc[T1].exc = "K6TimeoutError"
                   /\ loc[T1].status = "None" /\ now = loc[T1].iter_start)
       /\ (pc[T1] = "raised" /\ loc[T1].exc = "K6TimeoutError") => late

\* C18 witness: the hard limit is hit with FF FF 00 received and the 0x64
\* of a 100 % frame still to be read.
C18_Witness ==
    /\ pc[T1] = "raised"
    /\ loc[T1].exc = "K6TimeoutError"
    /\ loc[T1].stream = <<100>>
    /\ Len(loc[T1].buf) >= 3
    /\ WaitStatusTail(Append(loc[T1].buf, 100))

\* C18 witness: the hard limit is hit when the idle timeout is due too.
C18_WitnessIdleDue ==
    /\ pc[T1] = "raised"
    /\ loc[T1].exc = "K6TimeoutError"
    /\ now - loc[T1].last_rx > loc[T1].idle_s

-----------------------------------------------------------------------------
(* Properties of mark_position_transport (SpecMark) *)

MarkOrder ==
    <<OP_FRAMING, OP_JOB_HEADER, OP_CONNECT, OP_CONNECT, OP_DATA, OP_INIT, OP_INIT>>

\* Every step of the pipeline was written once and answered as it expects.
MarkAllAcked ==
    /\ WireOps = MarkOrder
    /\ \A i \in 1..Len(wire) : wire[i].reply = "good"

\* C21: when the device acknowledges every step of the 1x1 raster pipeline
\* and reports 100 %, mark_position_transport returns True.
C21_MarkSucceeds ==
    (/\ pc[T1] = "returned"
     /\ MarkAllAcked
     /\ loc[T1].stream = StatusFrame(100))
    => loc[T1].ok = "True"

\* What the code does: it never returns True.
C21_MarkNeverTrue == pc[T1] = "returned" => loc[T1].ok = "False"

\* Every step was acknowledged, the device reports 100 %, and the call to
\* wait_for_completion raised TypeError: the result is False.
C21_TypeError ==
    /\ pc[T1] = "returned"
    /\ MarkAllAcked
    /\ loc[T1].stream = StatusFrame(100)
    /\ loc[T1].exc = "TypeError"
    /\ loc[T1].ok = "False"

-----------------------------------------------------------------------------
(* Properties of draw_bounds_transport (SpecBounds) *)

\* The 16-bit value in two bytes of a packet, most significant first.
Word(p, i) == p[i] * 256 + p[i + 1]

\* C22: draw_bounds_transport writes one frame only, the 11-byte BOUNDS
\* (0x20) frame carrying width, height and center, never a DATA or INIT
\* frame; it returns True exactly when the frame is ACKed and False, without
\* raising, when the reply is empty or holds no ACK.
C22_BoundsOnly ==
    /\ Len(wire) <= 1
    /\ \A i \in 1..Len(wire) :
         /\ wire[i].opcode = 32
         /\ wire[i].len = 11
         /\ LET p == loc[T1].pkt
            IN /\ Len(p) = 11 /\ p[1] = 32 /\ p[2] = 0 /\ p[3] = 11
               /\ Word(p, 4) = loc[T1].width
               /\ Word(p, 6) = loc[T1].height
               /\ \A k \in 1..11 : p[k] \in 0..255
    /\ pc[T1] # "raised"
    /\ pc[T1] = "returned" =>
         /\ Len(wire) = 1
         /\ loc[T1].ok = "True" <=> wire[1].reply = "good"
         /\ loc[T1].ok = "False" <=> wire[1].reply = "bad"

\* C22 witness: the BOUNDS frame got no ACK and the call returned False.
C22_Witness ==
    /\ pc[T1] = "returned"
    /\ loc[T1].ok = "False"
    /\ loc[T1].exc = "K6DeviceError"
    /\ Len(wire) = 1

-----------------------------------------------------------------------------
(* Properties of the mock run (SpecMock, FairMock) *)

\* No command of the run got a reply that fails its check, no exception was
\* raised, and the wait never found the mock's queue empty.
MockRunClean ==
    /\ \A i \in 1..Len(wire) : wire[i].reply # "bad"
    /\ pc[T1] \notin {"raised", "dm_except", "bp_except"}
    /\ loc[T1].exc = "None"
    /\ pc[T1] = "wfc_read" => loc[T1].stream # <<>>
    /\ (pc[T1] = "done" /\ loc[T1].op = "connect") =>
         device_manager = [connected |-> TRUE, version |-> "v0.0.1",
                           transport |-> "MockTransport"]

MockRunDone ==
    /\ pc[T1] = "returned"
    /\ loc[T1].op = "engrave_transport"
    /\ loc[T1].ok = "True"
    /\ loc[T1].status = "complete"

\* C23: against a MockTransport with auto_respond, connect followed by an
\* engrave without dry run gets, for every command, a response that passes
\* its check, and the engrave terminates with ok = true and 'complete'.
C23_MockRun == [](MockRunClean) /\ <>(MockRunDone)

\* C23 witness: the run has ended; STOP, VERSION, CONNECT x2, HOME, then
\* FRAMING, JOB_HEADER, CONNECT x2, two DATA frames and INIT x2 were written.
C23_Witness ==
    /\ MockRunDone
    /\ Len(wire) = 13
    /\ WireOps = <<22, 255, 10, 10, 23, 33, 35, 10, 10, 34, 34, 36, 36>>
    /\ loc[T1].stream = <<>>


-----------------------------------------------------------------------------
(* Properties of the command file (SpecFile) *)

\* what a frame on the wire says of the command it carries: its opcode, the
\* scanline of a DATA command and the number of payload bytes
WrittenCmds == [i \in 1..Len(wire) |-> <<wire[i].opcode, wire[i].line, wire[i].len>>]

CmdKey(c) == <<c.opcode, c.line, IF c.opcode = OP_DATA THEN c.size - 4 ELSE 0>>

\* the commands build_commands serialized into the file of the request
BuiltCmds ==
    LET file == BuildCommands(PackedWidth(loc[FileThread].width), loc[FileThread].firsts)
    IN [k \in 1..Len(file) |-> CmdKey(file[k])]

BuiltWithoutInit == SelectSeq(BuiltCmds, LAMBDA c : c[1] # OP_INIT)

\* execute_from_file has returned ok to _run_burn_with_csv
FileRunOk(o) ==
    /\ pc[FileThread] = "rb_result"
    /\ loc[FileThread].ok = "True"
    /\ loc[FileThread].dry_run_override = o

ZeroFirsts == \A y \in 1..Len(loc[FileThread].firsts) : loc[FileThread].firsts[y] = 0

\* C24: with dry run off, a run of execute_from_file that returned has
\* written exactly the commands build_commands serialized, in their order
\* and with their boundaries, whatever the image holds.
C24_FileRoundTrip == FileRunOk("False") => WrittenCmds = BuiltCmds

\* C24, for the images whose scanlines all start with a zero byte: the
\* split is the inverse of the serialization.
C24_RoundTripZeroFirst == (FileRunOk("False") /\ ZeroFirsts) => WrittenCmds = BuiltCmds

\* a run over an image with a scanline that starts with a non-zero byte
C24_NonZeroRun == FileRunOk("False") /\ ~ZeroFirsts

\* C25: with dry run on, a run of execute_from_file that returned has
\* written every command of the file but the INIT commands, and no INIT
\* frame is ever on the wire.
C25_DryRunSkipsInit ==
    /\ loc[FileThread].dry_run_override = "True" =>
           \A i \in 1..Len(wire) : wire[i].opcode # OP_INIT
    /\ FileRunOk("True") => WrittenCmds = BuiltWithoutInit

\* C25, the part that holds for every image: no INIT frame is written in a
\* dry run.
C25_NoInitFrame ==
    loc[FileThread].dry_run_override = "True" =>
        \A i \in 1..Len(wire) : wire[i].opcode # OP_INIT

\* C25, for the images whose scanlines all start with a zero byte
C25_DryRunZeroFirst == (FileRunOk("True") /\ ZeroFirsts) => WrittenCmds = BuiltWithoutInit

\* a dry run over a file with scanlines has returned
C25_DryRunDone == FileRunOk("True") /\ ZeroFirsts /\ loc[FileThread].height > 0

-----------------------------------------------------------------------------
(* Properties of build_data_packet and checksum (SpecPacket) *)

PacketDone == pc[PacketThread] \in {"returned", "raised"}

IsByte(b) == b \in 0..255

\* C26: for a payload of at most 1900 bytes the packet is 0x22, the length
\* len(p) + 4 in two bytes, high byte first, the payload verbatim from offset
\* 3, and one more byte; a longer payload raises ValueError.
C26_DataPacketLayout ==
    PacketDone =>
        LET p == loc[PacketThread].payload
            pkt == loc[PacketThread].pkt
        IN IF Len(p) <= DATA_CHUNK
           THEN /\ pc[PacketThread] = "returned"
                /\ Len(pkt) = Len(p) + 4
                /\ \A i \in 1..Len(pkt) : IsByte(pkt[i])
                /\ pkt[1] = 34
                /\ pkt[2] * 256 + pkt[3] = Len(p) + 4
                /\ SubSeq(pkt, 4, Len(p) + 3) = p
           ELSE /\ pc[PacketThread] = "raised"
                /\ loc[PacketThread].exc = "ValueError"

\* a packet of 256 bytes has been built: the high byte of its length is 1
C26_Witness ==
    /\ pc[PacketThread] = "returned"
    /\ Len(loc[PacketThread].payload) = 252
    /\ loc[PacketThread].pkt[2] = 1
    /\ loc[PacketThread].pkt[3] = 0

\* a payload of 1901 bytes has been refused
C26_WitnessTooLong ==
    /\ pc[PacketThread] = "raised"
    /\ Len(loc[PacketThread].payload) = DATA_CHUNK + 1

\* C27: the last byte of a built DATA packet is minus the sum of the bytes
\* before it, modulo 256, and the bytes of the packet sum to 0 modulo 256.
C27_Checksum ==
    pc[PacketThread] = "returned" =>
        LET pkt == loc[PacketThread].pkt
            n == Len(pkt)
            before == SumRange(pkt, 1, n - 1)
        IN /\ \E k \in 0..(before \div 256) + 1 : pkt[n] = 256 * k - before
           /\ IsByte(pkt[n])
           /\ (before + pkt[n]) % 256 = 0

\* a full packet whose checksum byte is not zero has been built
C27_Witness ==
    /\ pc[PacketThread] = "returned"
    /\ Len(loc[PacketThread].payload) = DATA_CHUNK
    /\ loc[PacketThread].pkt[DATA_CHUNK + 4] # 0

-----------------------------------------------------------------------------
(* Properties of CommandSequence.get_bounds (SpecSeq) *)

JobHeaders(commands) == SelectSeq(commands, LAMBDA c : c.opcode = OP_JOB_HEADER)

\* width, height and center as a JOB_HEADER carries them
HeaderGeometry(p) ==
    [width |-> p[7] * 256 + p[8], height |-> p[9] * 256 + p[10],
     center_x |-> p[33] * 256 + p[34], center_y |-> p[35] * 256 + p[36]]

BoundsGeometry(b) ==
    [width |-> b.width, height |-> b.height, center_x |-> b.center_x, center_y |-> b.center_y]

BoundsAreOf(b, header) ==
    /\ DOMAIN b # {}
    /\ BoundsGeometry(b) = HeaderGeometry(header.payload)

\* C28: get_bounds returns the width, height and center of the JOB_HEADER
\* added last, and the empty result when the sequence has no JOB_HEADER.
C28_LatestHeader ==
    pc[SeqThread] = "returned" =>
        LET hs == JobHeaders(loc[SeqThread].commands)
        IN IF hs = <<>> THEN DOMAIN loc[SeqThread].bounds = {}
           ELSE BoundsAreOf(loc[SeqThread].bounds, hs[Len(hs)])

\* what get_bounds does return: the JOB_HEADER added first
C28_FirstHeader ==
    pc[SeqThread] = "returned" =>
        LET hs == JobHeaders(loc[SeqThread].commands)
        IN IF hs = <<>> THEN DOMAIN loc[SeqThread].bounds = {}
           ELSE BoundsAreOf(loc[SeqThread].bounds, hs[1])

\* get_bounds has returned on a sequence with two different JOB_HEADERs
C28_TwoHeaders ==
    /\ pc[SeqThread] = "returned"
    /\ LET hs == JobHeaders(loc[SeqThread].commands)
       IN Len(hs) >= 2 /\ hs[1] # hs[Len(hs)]

\* get_bounds has returned the empty result
C28_NoHeader ==
    /\ pc[SeqThread] = "returned"
    /\ Len(loc[SeqThread].commands) = MaxSeqLen
    /\ DOMAIN loc[SeqThread].bounds = {}

-----------------------------------------------------------------------------
(* Properties of the bounds validation of build_commands (SpecLimits) *)

WorkAreaX == 1600
WorkAreaY == 1520

InsideWorkArea(b) ==
    /\ 0 <= b.min_x /\ b.max_x <= WorkAreaX
    /\ 0 <= b.min_y /\ b.max_y <= WorkAreaY

LimitsReturned == pc[LimitsThread] = "returned"

\* the envelope the JOB_HEADER of the request describes
RequestEnvelope ==
    LET l == loc[LimitsThread]
    IN [min_x |-> l.center_x - (l.width \div 2), max_x |-> l.center_x + (l.width \div 2),
        min_y |-> l.center_y - (l.height \div 2), max_y |-> l.center_y + (l.height \div 2)]

\* C29: build_commands reports within_limits with no warning exactly when
\* the envelope of the job lies inside 0..1600 x 0..1520.
C29_WithinLimits ==
    LimitsReturned =>
        LET l == loc[LimitsThread]
        IN /\ (l.within_limits /\ l.warnings = <<>>) <=> InsideWorkArea(RequestEnvelope)
           /\ ~InsideWorkArea(RequestEnvelope) => l.warnings # <<>>

\* what build_commands does report: within_limits exactly when the far
\* sides of the envelope are within 1600 and 1520
C29_FarSidesOnly ==
    LimitsReturned =>
        LET l == loc[LimitsThread]
        IN /\ l.within_limits <=> (l.warnings = <<>>)
           /\ l.within_limits <=> (RequestEnvelope.max_x <= WorkAreaX
                                     /\ RequestEnvelope.max_y <= WorkAreaY)
           /\ l.bounds.min_x = RequestEnvelope.min_x
           /\ l.bounds.min_y = RequestEnvelope.min_y

\* build_commands has reported within_limits for an envelope that starts
\* left of the work area
C29_NegativeSide ==
    /\ LimitsReturned
    /\ loc[LimitsThread].within_limits
    /\ loc[LimitsThread].bounds.min_x < 0

\* build_commands has warned of an envelope beyond the far sides
C29_Warned ==
    /\ LimitsReturned
    /\ Len(loc[LimitsThread].warnings) = 2

-----------------------------------------------------------------------------
(* Properties of send_cmd (SpecSend) *)

\* the stop condition on the bytes read so far: min_response_len bytes; or
\* an ACK when one is expected; or, when none is expected, a heartbeat or
\* a status frame in the last four bytes
MeetsStop(rx) ==
    LET l == loc[SendThread]
        n == Len(rx)
    IN \/ l.min_response_len > 0 /\ n >= l.min_response_len
       \/ l.expect_ack /\ \E i \in 1..n : rx[i] = 9
       \/ /\ ~l.expect_ack
          /\ n >= 4
          /\ rx[n - 3] = 255 /\ rx[n - 2] = 255
          /\ \/ rx[n - 1] = 255 /\ rx[n] = 254
             \/ rx[n - 1] = 0

Prefix(s, k) == SubSeq(s, 1, k)

\* C30: send_cmd writes the frame once; what it has read and what is left
\* in the transport make up the incoming bytes; no shorter prefix than the
\* one read meets the stop condition, and reading goes on only while the
\* prefix read does not meet it; it returns the prefix read, which meets
\* the stop condition unless the deadline has passed.
C30_ShortestPrefix ==
    LET l == loc[SendThread]
        p == pc[SendThread]
    IN p \in {"sc_loop", "sc_log", "returned"} =>
        /\ Len(wire) = 1
        /\ l.rx \o l.stream = l.incoming
        /\ \A k \in 0..(Len(l.rx) - 1) : ~MeetsStop(Prefix(l.incoming, k))
        /\ p = "sc_loop" => ~MeetsStop(l.rx)
        /\ p \in {"sc_log", "returned"} => (MeetsStop(l.rx) \/ now >= l.deadline)
        /\ p = "returned" =>
             /\ l.ret = l.rx
             /\ MeetsStop(l.rx) =>
                  l.ret = send_cmd_loop(l.incoming, <<>>, l.expect_ack, l.min_response_len)

\* send_cmd has returned at a heartbeat and left a later response queued
C30_Witness ==
    /\ pc[SendThread] = "returned"
    /\ ~loc[SendThread].expect_ack
    /\ loc[SendThread].min_response_len = 0
    /\ loc[SendThread].ret = HEARTBEAT
    /\ loc[SendThread].stream # <<>>

\* send_cmd has returned nothing at the deadline
C30_WitnessNothing ==
    /\ pc[SendThread] = "returned"
    /\ loc[SendThread].ret = <<>>
    /\ now >= loc[SendThread].deadline

\* send_cmd has returned at the deadline with bytes that meet no stop
\* condition and with bytes still queued
C30_WitnessDeadline ==
    /\ pc[SendThread] = "returned"
    /\ loc[SendThread].ret # <<>>
    /\ ~MeetsStop(loc[SendThread].ret)
    /\ loc[SendThread].stream # <<>>

-----------------------------------------------------------------------------
(* Properties of the status percentage (SpecPct) *)

\* C31: the last_pct the completion watcher records is none or a value in
\* 0..100, whatever the device sends.
C31_PctRange == loc[T1].last_pct \in {-1} \cup (0..100)

\* what does hold: last_pct is none or the byte that followed FF FF 00
C31_PctIsByte == loc[T1].last_pct \in {-1} \cup PctValues

\* the watcher has returned idle_timeout with a last_pct above 100
C31_ReturnedAbove100 ==
    /\ pc[T1] = "returned"
    /\ loc[T1].status = "idle_timeout"
    /\ loc[T1].last_pct = 200

-----------------------------------------------------------------------------
(* Properties of parse_response_frames (SpecParse) *)

\* the positions of a response where FF FF FF FE starts, and where 0x09 is
PatternAt(rx) ==
    {i \in 1..Len(rx) :
        /\ i + 3 <= Len(rx)
        /\ rx[i] = 255 /\ rx[i + 1] = 255 /\ rx[i + 2] = 255 /\ rx[i + 3] = 254}

AckAt(rx) == {i \in 1..Len(rx) : rx[i] = 9}

\* C32: the response is NONE iff empty, HEARTBEAT+ACK iff it holds the
\* pattern and a 0x09, HEARTBEAT iff only the pattern, ACK iff only a 0x09,
\* OTHER otherwise; the counts are the numbers of occurrences.
C32_Classification ==
    pc[T1] = "returned" =>
        LET l == loc[T1]
            pat == PatternAt(l.rx) # {}
            ack == AckAt(l.rx) # {}
        IN /\ l.typ = "NONE" <=> l.rx = <<>>
           /\ l.typ = "HEARTBEAT+ACK" <=> (pat /\ ack)
           /\ l.typ = "HEARTBEAT" <=> (pat /\ ~ack)
           /\ l.typ = "ACK" <=> (ack /\ ~pat)
           /\ l.typ = "OTHER" <=> (l.rx # <<>> /\ ~pat /\ ~ack)
           /\ l.hb = Cardinality(PatternAt(l.rx))
           /\ l.ack = Cardinality(AckAt(l.rx))

\* a response with two heartbeats and three ACKs has been classified
C32_Witness ==
    /\ pc[T1] = "returned"
    /\ loc[T1].typ = "HEARTBEAT+ACK"
    /\ loc[T1].hb = 2
    /\ loc[T1].ack = 3

\* a lone status frame has been classified OTHER
C32_WitnessStatus ==
    /\ pc[T1] = "returned"
    /\ loc[T1].rx = <<255, 255, 0, 100>>
    /\ loc[T1].typ = "OTHER"

-----------------------------------------------------------------------------
(* Properties of the JOB_HEADER size field (SpecJob) *)

\* bytes 20..23 of a JOB_HEADER, big-endian
TotalSizeField(h) == ((h[21] * 256 + h[22]) * 256 + h[23]) * 256 + h[24]

CeilDiv8(w) == IF w % 8 = 0 THEN w \div 8 ELSE (w \div 8) + 1

\* the bytes of the scanlines handed to the upload
SumLens(lines) == SumRange(lines, 1, Len(lines))

\* the payload bytes of the DATA frames the device has acknowledged
RECURSIVE AckedDataBytes(_)
AckedDataBytes(k) ==
    IF k > Len(wire) THEN 0
    ELSE (IF IsData(wire[k]) /\ wire[k].reply = "good" THEN wire[k].len ELSE 0)
         + AckedDataBytes(k + 1)

\* C33: the total_size of the JOB_HEADER of a job is ceil(width/8) x height
\* and is the number of DATA payload bytes of the job: those of its
\* scanlines, and those acknowledged once burn_payload has returned.
C33_TotalSize ==
    LET l == loc[T1]
    IN l.header # <<>> =>
         /\ TotalSizeField(l.header) = CeilDiv8(l.width) * l.height
         /\ TotalSizeField(l.header) = SumLens(l.payload_lines)
         /\ (l.op # "build_commands" /\ l.chunks >= 0) =>
                AckedDataBytes(1) = TotalSizeField(l.header)

\* an engrave of a 9 pixel wide image of two rows has uploaded its 4 bytes
C33_Witness ==
    /\ loc[T1].op = "engrave_transport"
    /\ loc[T1].width = 9
    /\ loc[T1].chunks >= 0
    /\ loc[T1].header # <<>>
    /\ TotalSizeField(loc[T1].header) = 4

\* a mark has uploaded its one byte
C33_WitnessMark ==
    /\ loc[T1].op = "mark_position_transport"
    /\ loc[T1].header # <<>>
    /\ AckedDataBytes(1) = 1

\* build_commands has built a sequence for 1600 x 1520
C33_WitnessBuild ==
    /\ loc[T1].op = "build_commands"
    /\ pc[T1] = "returned"
    /\ TotalSizeField(loc[T1].header) = 304000

-----------------------------------------------------------------------------
(* Properties of burn_payload's return (SpecBurn) *)

AckedData == {i \in 1..Len(wire) : IsData(wire[i]) /\ wire[i].reply = "good"}

\* C34: burn_payload returns only after every chunk of every scanline was
\* written and acknowledged: the count returned is the sum of ceil(len/1900)
\* over the scanlines and the number of acknowledged DATA frames, for every
\* max_retries.
C34_ReturnMeansSent ==
    pc[T1] = "returned" =>
        /\ loc[T1].chunks = SumCeil(loc[T1].payload_lines, 1)
        /\ loc[T1].chunks = Cardinality(AckedData)
        /\ \A s \in 1..Len(SlicesOfLines(loc[T1].payload_lines, 0)) :
             \E i \in AckedData :
                SliceOf(wire[i]) = SlicesOfLines(loc[T1].payload_lines, 0)[s]

\* the same for calls with max_retries of at least 1
C34_ReturnWithAttempts == loc[T1].max_retries >= 1 => C34_ReturnMeansSent

\* the count returned is always the number of acknowledged DATA frames
C34_CountIsAcked == pc[T1] = "returned" => loc[T1].chunks = Cardinality(AckedData)

\* burn_payload has returned 0 for two scanlines without writing a frame
C34_NothingSent ==
    /\ pc[T1] = "returned"
    /\ loc[T1].max_retries = 0
    /\ loc[T1].payload_lines = <<1900, 3000>>
    /\ loc[T1].chunks = 0
    /\ wire = <<>>


-----------------------------------------------------------------------------
(* C35: the ACK accepted for a chunk answers a frame of that chunk *)

SameChunk(i, j) == wire[i].line = wire[j].line /\ wire[i].off = wire[j].off

Credits == loc[T1].credited

\* C35: every ACK that burn_payload accepted for a chunk is the device's
\* reply to a frame of that same chunk, so no chunk is counted as sent while
\* all of its frames are still unanswered.
C35_AckIsForChunk ==
    \A k \in 1..Len(Credits) :
        /\ SameChunk(Credits[k].frame, Credits[k].ack_for)
        /\ \E i \in 1..Len(wire) :
              /\ SameChunk(i, Credits[k].frame)
              /\ ~(\E j \in 1..Len(loc[T1].inflight) : loc[T1].inflight[j] = i)

\* An accepted ACK never answers a frame written after the one it is credited to.
C35_AckIsNotFromLater ==
    \A k \in 1..Len(Credits) : Credits[k].ack_for <= Credits[k].frame

\* burn_payload returned with a chunk counted on the ACK of the chunk before it.
C35_StaleCredited ==
    /\ pc[T1] = "returned"
    /\ \E k \in 1..Len(Credits) : ~SameChunk(Credits[k].frame, Credits[k].ack_for)

\* burn_payload returned although the device's answer to the last chunk's
\* frames had not arrived.
C35_CountedUnanswered ==
    /\ pc[T1] = "returned"
    /\ loc[T1].chunks = 2
    /\ \A i \in 1..Len(wire) :
          SameChunk(i, Len(wire)) => \E j \in 1..Len(loc[T1].inflight) : loc[T1].inflight[j] = i


-----------------------------------------------------------------------------
(* C36: a 100 % status frame sent after INIT #1 ends the engrave with ok *)

DoneFinished == pc[T1] \in {"returned", "raised"}

HundredDuring(pcs) ==
    \E k \in 1..Len(loc[T1].emitted) :
        loc[T1].emitted[k].pct = 100 /\ loc[T1].emitted[k].during \in pcs

HundredInInit ==
    \E k \in 1..Len(loc[T1].init_rx) :
        LET rx == loc[T1].init_rx[k]
        IN Len(rx) >= 4 /\ SubSeq(rx, Len(rx) - 3, Len(rx)) = StatusFrame(100)

\* C36: when the device sent FF FF 00 64 while INIT #1 or INIT #2 was
\* waiting for its response, the finished non-dry-run engrave has ok = true.
C36_HundredMeansOk ==
    (DoneFinished /\ HundredDuring({"INIT1", "INIT2"})) => loc[T1].ok = "True"

\* A 100 % frame that wait_for_completion itself reads ends the engrave with ok.
C36_HundredReadByWait ==
    (DoneFinished /\ loc[T1].status = "complete")
        => loc[T1].ok = "True" /\ ~HundredInInit

\* When the 100 % frame was sent and the engrave still finished without ok,
\* it was an INIT that took the frame or an INIT that raised before it.
C36_LostOnlyInInit ==
    (/\ DoneFinished
     /\ HundredDuring({"INIT1", "INIT2", "between", "wait"})
     /\ loc[T1].ok # "True")
        => HundredInInit \/ loc[T1].err_at \in {"INIT1", "INIT2"}

\* The 100 % frame was the response INIT #1 returned, nothing came for the
\* wait, and the engrave returned ok = false on the idle timeout.
C36_LostToInit ==
    /\ pc[T1] = "returned"
    /\ loc[T1].ok = "False"
    /\ loc[T1].status = "idle_timeout"
    /\ HundredInInit

\* The 100 % frame answered INIT #1 and INIT #2 then timed out.
C36_InitTwoRaised ==
    /\ pc[T1] = "raised"
    /\ loc[T1].exc = "K6TimeoutError"
    /\ loc[T1].err_at = "INIT2"
    /\ HundredInInit


-----------------------------------------------------------------------------
(* C37: the cancel event stays set until the burn in flight has seen it *)

\* A burn that has written a frame, has not ended and has not been interrupted.
BurnInFlight(b) ==
    /\ pc[b] \notin {"idle", "done"}
    /\ loc[b].exc # "KeyboardInterrupt"
    /\ \E k \in 1..Len(wire) : wire[k].by = b

\* C37: the cancel event is never cleared while a burn that has not yet
\* observed it is in flight.
C37_CancelStaysSet ==
    [][(burn_cancel_event /\ ~burn_cancel_event')
          => \A b \in Clients : ~BurnInFlight(b)]_vars

\* The event is cleared only by the arrival of a burn request.
C37_ClearedByRequest ==
    [][(burn_cancel_event /\ ~burn_cancel_event')
          => \E t \in Clients : pc[t] = "idle" /\ pc'[t] = "rb_prev"]_vars

\* A burn that was in flight when stop was requested wrote frames after the
\* STOP frame and ended with success.
C37_BurnSurvivedStop ==
    \E b \in Clients : \E s \in StopFrames :
        /\ FramesBefore(b, s) # {}
        /\ FramesAfter(b, s) # {}
        /\ pc[b] = "done"
        /\ loc[b].ok = "True"


-----------------------------------------------------------------------------
(* C39: the fields of K6DeviceManager after connect and disconnect calls *)

\* With connected true the transport is set and the version is the one the
\* connect that has just succeeded read.
ConnectedConsistent ==
    device_manager.connected =>
        /\ device_manager.transport # "None"
        /\ loc[T1].op = "connect"
        /\ loc[T1].ok = "True"
        /\ device_manager.version = VersionString(loc[T1].version)

\* C39: after every call the fields are consistent: connected implies the
\* transport is set and the version is that of the last successful connect,
\* not connected implies that transport and version are both None.
C39_FieldsConsistent ==
    pc[T1] = "done" =>
        /\ ConnectedConsistent
        /\ ~device_manager.connected =>
              (device_manager.transport = "None" /\ device_manager.version = "None")

\* The half of the statement about connected = true, and the transport
\* being None whenever connected is false, hold after every call.
C39_ConnectedHalf ==
    pc[T1] = "done" =>
        /\ ConnectedConsistent
        /\ ~device_manager.connected => device_manager.transport = "None"

\* A connect failed after an earlier one had succeeded: the manager is not
\* connected and still carries the earlier version.
C39_StaleVersion ==
    /\ pc[T1] = "done"
    /\ loc[T1].op = "connect"
    /\ loc[T1].ok = "False"
    /\ ~device_manager.connected
    /\ device_manager.version # "None"

\* A connect succeeded after a failed one.
C39_Reconnected ==
    /\ pc[T1] = "done"
    /\ loc[T1].i = MaxCalls
    /\ device_manager.connected
    /\ \E k \in 1..Len(wire) : wire[k].opcode = OP_VERSION /\ wire[k].reply # "good"


-----------------------------------------------------------------------------
(* C38: the version and the ACKs of connect are the device's replies *)

VersionFrame == CHOOSE k \in 1..Len(wire) : wire[k].opcode = OP_VERSION

\* C38: when connect succeeds, the three version bytes are the device's
\* reply to the VERSION frame and the reported version is the device's, and
\* every ACK accepted for CONNECT or HOME answers that very frame.
C38_VersionIsReply ==
    /\ (pc[T1] = "done" /\ loc[T1].ok = "True") =>
          /\ loc[T1].ver_tags = <<VersionFrame, VersionFrame, VersionFrame>>
          /\ device_manager.version = VersionString(loc[T1].device_version)
    /\ \A k \in 1..Len(loc[T1].credited) :
          loc[T1].credited[k].ack_for = loc[T1].credited[k].frame

\* With an empty buffer at VERSION the statement holds: the version is the
\* device's and every ACK answers its own frame.
C38_CleanBuffer ==
    (/\ pc[T1] = "done"
     /\ loc[T1].ok = "True"
     /\ \A k \in 1..3 : loc[T1].ver_tags[k] = VersionFrame)
        => /\ device_manager.version = VersionString(loc[T1].device_version)
           /\ \A k \in 1..Len(loc[T1].credited) :
                 loc[T1].credited[k].ack_for = loc[T1].credited[k].frame

\* connect succeeded and reports a version that begins with a byte that was
\* waiting in the buffer.
C38_WrongVersion ==
    /\ pc[T1] = "done"
    /\ loc[T1].ok = "True"
    /\ device_manager.version # VersionString(loc[T1].device_version)
    /\ loc[T1].ver_tags[1] # VersionFrame

\* connect succeeded although the device never answered HOME: an ACK left
\* over from an earlier frame passed its check.
C38_StaleAckPassed ==
    /\ pc[T1] = "done"
    /\ loc[T1].ok = "True"
    /\ \E k \in 1..Len(loc[T1].credited) :
          /\ wire[loc[T1].credited[k].frame].opcode = OP_HOME
          /\ loc[T1].credited[k].ack_for # loc[T1].credited[k].frame


-----------------------------------------------------------------------------
(* C40: the builders of K6CommandBuilder and of protocol agree *)

C40_WitnessHeader ==
    /\ pc[T1] = "ag_done"
    /\ loc[T1].kind = "header"
    /\ loc[T1].center_x = -1
    /\ loc[T1].center_y = -1
    /\ Len(loc[T1].built.payload) = 38
    /\ SubSeq(loc[T1].built.payload, 35, 36) = <<2, 248>>

\* A full DATA chunk was built by both, and a longer payload refused by both.
C40_WitnessData ==
    /\ pc[T1] = "ag_done"
    /\ loc[T1].kind = "data"
    /\ \/ Len(loc[T1].payload) = DATA_CHUNK /\ Len(loc[T1].built.payload) = DATA_CHUNK + 4
       \/ Len(loc[T1].payload) > DATA_CHUNK /\ loc[T1].built.exc = "ValueError"

====
